---- MODULE Spec2Model ----
(***************************************************************************)
(* A model of the options opportunity pipeline: Black-Scholes pricing      *)
(* (bs.py), opportunity scoring (scoring.py), the RSS sentiment store      *)
(* (rss_sentiment.py) and the sentiment fusion of the pipelines            *)
(* (pipeline.py, pipeline_multi_ticker.py).                                *)
(*                                                                         *)
(* Floating point.  A Python float is modelled as a record                 *)
(* [nan, v]: either NaN, or the finite value v / SCALE (fixed point, four  *)
(* decimals).  Arithmetic rounds to the nearest multiple of 1 / SCALE;     *)
(* a NaN operand gives NaN and every comparison with NaN is false, as in   *)
(* IEEE 754.  No operation of the modelled code produces an infinity from  *)
(* finite operands (every divisor is floored away from zero), so the       *)
(* domain holds no infinities.                                             *)
(***************************************************************************)
EXTENDS Integers, Sequences, FiniteSets, TLC

VARIABLES
    bs_pc,        \* "call" before bs_price runs, "returned" after
    bs_args,      \* the arguments of the bs_price call
    bs_result     \* what the call ended with

pricing_vars == <<bs_pc, bs_args, bs_result>>

VARIABLES
    sc_pc,        \* "call" before compute_scores runs, "returned" after
    sc_args,      \* options_df, spot, r and sentiment_mean of the call
    sc_result     \* the returned table, or the exception

scoring_vars == <<sc_pc, sc_args, sc_result>>

VARIABLES
    rss_items,    \* the committed rows of the items table, in insertion order
    utcnow,       \* the clock, in hours
    pl_pc,        \* "idle" before a pipeline run, "returned" after
    pl_args,      \* the flow and the inputs of the run
    pl_result     \* how the run ended, and the rss_sent it resolved

fusion_vars == <<rss_items, utcnow, pl_pc, pl_args, pl_result>>

VARIABLES
    db_init,      \* the items table exists (init_db has run)
    db_lock,      \* the writer whose open transaction holds the write lock, or 0
    wr,           \* per run_pipeline execution: position, feeds left, rows not yet committed
    rd            \* the store query in progress or last made, and its result

store_vars == <<db_init, db_lock, wr, rd>>

VARIABLES
    hl_pc,        \* "call" before a headline function runs, "returned" after
    hl_args,      \* the function called and its arguments
    hl_result     \* what it returned

headline_vars == <<hl_pc, hl_args, hl_result>>

VARIABLES
    rt_pc,        \* where _retry_on_rate_limit / get_spot stands
    rt_attempt,   \* attempt of the for loop
    rt_backoff,   \* backoff, in seconds
    rt_log,       \* the invocations of func and the sleeps, in order
    rt_result     \* what the call ended with

retry_vars == <<rt_pc, rt_attempt, rt_backoff, rt_log, rt_result>>

VARIABLES
    csv_exists,   \* newsapi_headlines.csv exists
    csv_rows,     \* its data rows, in file order
    news_now,     \* datetime.now(timezone.utc), in hours
    fetch_log     \* the calls of fetch_headlines so far, in order

cache_vars == <<csv_exists, csv_rows, news_now, fetch_log>>

VARIABLES
    mt_args,      \* tickers, what the market gives for each, and --parallel
    mt_pc,        \* "run" while tickers are processed, "written" after
    mt_task,      \* per ticker position: "pending", "running", "done", "collected"
    mt_started,   \* per ticker position: the number of calls of _process_ticker
    mt_all_rows,  \* all_rows of main
    mt_written    \* the rows of the output CSV

pool_vars == <<mt_args, mt_pc, mt_task, mt_started, mt_all_rows, mt_written>>

VARIABLES
    api_file,     \* the CSV of api_server: whether it exists, and its rows
    api_index,    \* _options_by_ticker
    api_req,      \* per request thread: position, ticker, row being read, response
    api_count,    \* the requests received
    api_loaded    \* a call of load_csv has read the file to its end

api_vars == <<api_file, api_index, api_req, api_count, api_loaded>>

VARIABLES
    us_pc,        \* "run" while update_scores goes through the tickers
    us_input,     \* the rows read from the input CSV, and the spot of each ticker
    us_todo,      \* the tickers still to be scored
    us_scored,    \* scored_rows
    us_output     \* the rows written

upd_vars == <<us_pc, us_input, us_todo, us_scored, us_output>>

\* The variables of the programs that work on the output CSV.
web_vars == <<api_vars, upd_vars>>

\* The variables of the network-facing modules.
io_vars == <<retry_vars, cache_vars, pool_vars, web_vars>>

vars == <<pricing_vars, scoring_vars, fusion_vars, store_vars, headline_vars, io_vars>>

\* Fixed-point resolution: v stands for v / SCALE.
SCALE == 100 * 100

----------------------------------------------------------------------------
\* Integer helpers of the fixed-point arithmetic.

Abs(x) == IF x < 0 THEN -x ELSE x

Sgn(x) == IF x > 0 THEN 1 ELSE IF x < 0 THEN -1 ELSE 0

Max(a, b) == IF a >= b THEN a ELSE b

Min(a, b) == IF a <= b THEN a ELSE b

\* a * b / SCALE for a, b >= 0, rounded to nearest, without leaving 32 bits.
MulMag(a, b) ==
    LET qa == a \div SCALE
        ra == a % SCALE
        qb == b \div SCALE
        rb == b % SCALE
    IN  qa * qb * SCALE + qa * rb + ra * qb + ((ra * rb + SCALE \div 2) \div SCALE)

\* The product of two fixed-point numbers.
MulS(a, b) == Sgn(a) * Sgn(b) * MulMag(Abs(a), Abs(b))

\* Long division: the next n decimal digits of r / b appended to q.
RECURSIVE DivDigits(_, _, _, _)
DivDigits(q, r, b, n) ==
    IF n = 0
    THEN IF 2 * r >= b THEN q + 1 ELSE q
    ELSE DivDigits(q * 10 + ((r * 10) \div b), (r * 10) % b, b, n - 1)

\* a * SCALE / b for a >= 0, b > 0, rounded to nearest.
DivMag(a, b) == DivDigits(a \div b, a % b, b, 4)

\* The quotient of two fixed-point numbers, b # 0.
DivS(a, b) == Sgn(a) * Sgn(b) * DivMag(Abs(a), Abs(b))

\* Integer square root (floor) of n >= 0 by bisection on [lo, hi].
RECURSIVE ISqrt(_, _, _)
ISqrt(n, lo, hi) ==
    IF lo >= hi
    THEN lo
    ELSE LET mid == (lo + hi + 1) \div 2
         IN  IF mid * mid <= n THEN ISqrt(n, mid, hi) ELSE ISqrt(n, lo, mid - 1)

\* math.sqrt on a fixed-point x >= 0.
SqrtS(x) == ISqrt(x * SCALE, 0, 46340)

\* exp(f) for 0 <= f < SCALE (f < 1.0): the Taylor polynomial in Horner form.
RECURSIVE ExpTaylor(_, _)
ExpTaylor(f, k) ==
    IF k > 9
    THEN SCALE
    ELSE SCALE + MulS(f, ExpTaylor(f, k + 1)) \div k

\* e ^ n for a natural n, by repeated multiplication with e = 2.7183.
RECURSIVE ExpInt(_)
ExpInt(n) == IF n = 0 THEN SCALE ELSE MulS(27183, ExpInt(n - 1))

\* math.exp / np.exp on a fixed-point x.
ExpS(x) ==
    IF x >= 0
    THEN MulS(ExpInt(x \div SCALE), ExpTaylor(x % SCALE, 1))
    ELSE DivS(SCALE, MulS(ExpInt((-x) \div SCALE), ExpTaylor((-x) % SCALE, 1)))

\* 2 * atanh(z) = 2 * (z + z^3/3 + z^5/5 + ...), the terms up to z^11.
RECURSIVE AtanhSeries(_, _, _)
AtanhSeries(zpow, z2, k) ==
    IF k > 11 \/ zpow = 0
    THEN 0
    ELSE zpow \div k + AtanhSeries(MulS(zpow, z2), z2, k + 2)

AtanhOf(z) == AtanhSeries(z, MulS(z, z), 1)

\* math.log / np.log on a fixed-point x > 0: halve or double x into
\* [0.75, 1.5], adding or subtracting ln 2 = 0.6931, then the atanh series.
RECURSIVE LnS(_)
LnS(x) ==
    IF x > 15000
    THEN 6931 + LnS((x + 1) \div 2)
    ELSE IF x < 7500
         THEN LnS(2 * x) - 6931
         ELSE 2 * AtanhOf(DivS(x - SCALE, x + SCALE))

\* np.tanh on a fixed-point x: (e^2x - 1) / (e^2x + 1), odd in x.
TanhOfExp(e2) == DivS(e2 - SCALE, e2 + SCALE)

TanhSeries(x) == Sgn(x) * TanhOfExp(ExpS(2 * Abs(x)))

\* TanhSeries on [0, 2/3], where compute_scores takes it, evaluated once.
TanhMemo == [x \in 0 .. (2 * SCALE) \div 3 + 1 |-> TanhSeries(x)]

TanhS(x) ==
    IF Abs(x) \in DOMAIN TanhMemo THEN Sgn(x) * TanhMemo[Abs(x)] ELSE TanhSeries(x)

\* The standard normal density exp(-x^2 / 2) / sqrt(2 pi), 1 / sqrt(2 pi) = 0.3989.
PdfS(x) == MulS(3989, ExpS(-(MulS(x, x) \div 2)))

\* scipy.stats.norm.cdf on a fixed-point x >= 0 (Abramowitz-Stegun 26.2.17).
CdfPoly(t) ==
    MulS(t, 3194 + MulS(t, -3566 + MulS(t, 17815 + MulS(t, -18213 + MulS(t, 13303)))))

CdfPos(x) == SCALE - MulS(PdfS(x), CdfPoly(DivS(SCALE, SCALE + MulS(2316, x))))

\* scipy.stats.norm.cdf on a fixed-point x.
CdfS(x) == IF x >= 0 THEN CdfPos(x) ELSE SCALE - CdfPos(-x)

----------------------------------------------------------------------------
\* Python floats: NaN or a finite fixed-point value.

NaN == [nan |-> TRUE, v |-> 0]

Fl(x) == [nan |-> FALSE, v |-> x]

Zero == Fl(0)

IsNaN(a) == a.nan

\* np.isfinite: the domain holds no infinities.
IsFinite(a) == ~a.nan

\* Comparisons: false as soon as one side is NaN.
FLe(a, b) == ~a.nan /\ ~b.nan /\ a.v <= b.v

FLt(a, b) == ~a.nan /\ ~b.nan /\ a.v < b.v

FGt(a, b) == ~a.nan /\ ~b.nan /\ a.v > b.v

FGe(a, b) == ~a.nan /\ ~b.nan /\ a.v >= b.v

\* a != b of Python: true when one side is NaN.
FNe(a, b) == a.nan \/ b.nan \/ a.v # b.v

FAdd(a, b) == IF a.nan \/ b.nan THEN NaN ELSE Fl(a.v + b.v)

FSub(a, b) == IF a.nan \/ b.nan THEN NaN ELSE Fl(a.v - b.v)

FMul(a, b) == IF a.nan \/ b.nan THEN NaN ELSE Fl(MulS(a.v, b.v))

\* a / b for a divisor the caller knows to be non-zero.
FDiv(a, b) == IF a.nan \/ b.nan THEN NaN ELSE Fl(DivS(a.v, b.v))

FNeg(a) == IF a.nan THEN NaN ELSE Fl(-a.v)

FAbs(a) == IF a.nan THEN NaN ELSE Fl(Abs(a.v))

FSqrt(a) == IF a.nan THEN NaN ELSE Fl(SqrtS(a.v))

FLog(a) == IF a.nan THEN NaN ELSE Fl(LnS(a.v))

FExp(a) == IF a.nan THEN NaN ELSE Fl(ExpS(a.v))

FTanh(a) == IF a.nan THEN NaN ELSE Fl(TanhS(a.v))

FCdf(a) == IF a.nan THEN NaN ELSE Fl(CdfS(a.v))

\* np.sign: -1.0, 0.0 or 1.0, NaN for NaN.
FSign(a) == IF a.nan THEN NaN ELSE Fl(Sgn(a.v) * SCALE)

\* np.maximum: NaN if either operand is NaN.
FMaximum(a, b) == IF a.nan \/ b.nan THEN NaN ELSE Fl(Max(a.v, b.v))

\* np.clip(a, lo, hi): NaN stays NaN.
FClip(a, lo, hi) == IF a.nan THEN NaN ELSE Fl(Min(Max(a.v, lo), hi))

\* Series.fillna(d)
FillNa(a, d) == IF a.nan THEN Fl(d) ELSE a

----------------------------------------------------------------------------
\* bs.py: Black-Scholes option pricing.

OptionTypes == {"call", "put"}

\* What a call of a Python function ends with: a returned float or an exception.
Return(x) == [raised |-> FALSE, val |-> x]

Raise == [raised |-> TRUE, val |-> NaN]

\* Lines 31-34 of bs_price: the call or the put value.
bs_value(S, disc, d1, d2, option_type) ==
    IF option_type = "call"
    THEN Return(FSub(FMul(S, FCdf(d1)), FMul(disc, FCdf(d2))))
    ELSE Return(FSub(FMul(disc, FCdf(FNeg(d2))), FMul(S, FCdf(FNeg(d1)))))

\* Line 30 of bs_price: d2 = d1 - sigma * sqrt_T.
bs_from_d1(d1, den, S, disc, option_type) ==
    bs_value(S, disc, d1, FSub(d1, den), option_type)

\* Lines 29-30 of bs_price: d1 and d2 from log(S / K) and sigma * sqrt_T.
\* math.log raises ValueError on an argument <= 0 and a float division by
\* zero raises ZeroDivisionError; NaN operands raise nothing.
bs_terms(ratio, den, S, K, T, r, sigma, option_type) ==
    IF ~ratio.nan /\ ratio.v <= 0
    THEN Raise
    ELSE IF ~den.nan /\ den.v = 0
    THEN Raise
    ELSE bs_from_d1(FDiv(FAdd(FLog(ratio),
                              FMul(FAdd(r, FMul(Fl(SCALE \div 2), FMul(sigma, sigma))), T)),
                         den),
                    den, S, FMul(K, FExp(FMul(FNeg(r), T))), option_type)

\* Lines 28-34 of bs_price: the formula behind the guard.  math.sqrt raises
\* ValueError on a negative argument, S / K raises on K = 0.
bs_formula(S, K, T, r, sigma, option_type) ==
    IF ~T.nan /\ T.v < 0
    THEN Raise
    ELSE IF ~K.nan /\ K.v = 0
    THEN Raise
    ELSE bs_terms(FDiv(S, K), FMul(sigma, FSqrt(T)), S, K, T, r, sigma, option_type)

\* bs_price with the guard comparing strictly: zero inputs reach the formula.
bs_price_strict(S, K, T, r, sigma, option_type) ==
    IF FLt(T, Zero) \/ FLt(sigma, Zero) \/ FLt(S, Zero) \/ FLt(K, Zero)
    THEN Return(NaN)
    ELSE bs_formula(S, K, T, r, sigma, option_type)

\* bs_price: NaN for T <= 0, sigma <= 0, S <= 0 or K <= 0, else the formula.
bs_price(S, K, T, r, sigma, option_type) ==
    IF FLe(T, Zero) \/ FLe(sigma, Zero) \/ FLe(S, Zero) \/ FLe(K, Zero)
    THEN Return(NaN)
    ELSE bs_formula(S, K, T, r, sigma, option_type)

----------------------------------------------------------------------------
\* market_data.py: the rows get_options_chain hands to compute_scores.

\* mid_price of get_options_chain: (bid + ask) / 2 when both sides are
\* quoted, else the last trade price; missing values count as 0.
MidPrice(bid, ask, lastPrice) ==
    LET b == FillNa(bid, 0)
        a == FillNa(ask, 0)
        l == FillNa(lastPrice, 0)
    IN  IF FGt(b, Zero) /\ FGt(a, Zero)
        THEN Fl((b.v + a.v) \div 2)
        ELSE l

\* One row of the chain: the quote as fetched, with mid_price derived.
OptionRow(option_type, strike, T, iv, bid, ask, lastPrice, volume, openInterest) ==
    [option_type |-> option_type, strike |-> strike,
     time_to_expiry_years |-> T, impliedVolatility |-> iv,
     bid |-> bid, ask |-> ask, lastPrice |-> lastPrice,
     volume |-> volume, openInterest |-> openInterest,
     mid_price |-> MidPrice(bid, ask, lastPrice)]

----------------------------------------------------------------------------
\* scoring.py: compute_scores.

\* 0.01, the floor of the divisors.
PriceFloor == SCALE \div 100

\* 5, the largest spread penalty.
MaxPenalty == 5 * SCALE

\* An implied volatility of 5 (500%) or more is not used.
MaxSigma == 5 * SCALE

\* Lines 35-36: impliedVolatility is used only when 0 < sigma < 5.
ValidSigma(iv) ==
    LET sigma == FillNa(iv, 0)
    IN  IF FGt(sigma, Zero) /\ FLt(sigma, Fl(MaxSigma)) THEN sigma ELSE NaN

\* SpreadPenalty with an unknown spread filled with 0 instead of 5.
SpreadPenaltyFillZero(row) ==
    LET mid == FillNa(row.mid_price, 0)
        bid == FillNa(row.bid, 0)
        ask == FillNa(row.ask, 0)
        spread == IF FGt(bid, Zero) /\ FGt(ask, Zero) THEN FSub(ask, bid) ELSE NaN
    IN  FillNa(FClip(FDiv(spread, FMaximum(mid, Fl(PriceFloor))), 0, MaxPenalty), 0)

\* Lines 57-63: clip(spread / max(mid, 0.01), 0, 5), and 5 for an unknown spread.
SpreadPenalty(row) ==
    LET mid == FillNa(row.mid_price, 0)
        bid == FillNa(row.bid, 0)
        ask == FillNa(row.ask, 0)
        spread == IF FGt(bid, Zero) /\ FGt(ask, Zero) THEN FSub(ask, bid) ELSE NaN
    IN  FillNa(FClip(FDiv(spread, FMaximum(mid, Fl(PriceFloor))), 0, MaxPenalty),
               MaxPenalty)

\* Lines 53-55 and 90: volume + openInterest, missing values as 0.
VolOi(row) == FAdd(FillNa(row.volume, 0), FillNa(row.openInterest, 0))

\* Lines 49-63 and 73-74: the gap, liquidity and spread columns of a row
\* whose theoretical price is known, with the two factors of the raw score
\* that depend on the row alone.
GapColumns(row, price, gap) ==
    [raised |-> price.raised,
     theo_price |-> price.val,
     pricing_gap |-> gap,
     pricing_gap_pct |-> FDiv(gap, FMaximum(price.val, Fl(PriceFloor))),
     liquidity_score |-> FLog(FAdd(Fl(SCALE), VolOi(row))),
     spread_penalty |-> SpreadPenalty(row),
     liq_factor |-> FAdd(Fl(SCALE),
                         FMul(Fl(SCALE \div 4), FLog(FAdd(Fl(SCALE), VolOi(row))))),
     spread_factor |-> FExp(FNeg(SpreadPenalty(row)))]

PricedColumns(row, price) ==
    GapColumns(row, price, FSub(FillNa(row.mid_price, 0), price.val))

\* Lines 38-63: the columns of one row that depend on the row, spot and r
\* only.  A raising bs_price ends the whole call.
RowColumns(row, spot, r) ==
    PricedColumns(row, bs_price(spot, row.strike, row.time_to_expiry_years, r,
                                ValidSigma(row.impliedVolatility),
                                IF row.option_type = "call" THEN "call" ELSE "put"))

\* Alignment with the sign of the raw sentiment taken also at 0 and the put
\* side not negated.
AlignmentCallOnly(row, sentiment_mean) == FSign(sentiment_mean)

\* Lines 66-68: sign(sentiment_mean) * (+1 for a call, -1 for anything else).
Alignment(row, sentiment_mean) ==
    LET call_put_sign == IF row.option_type = "call" THEN 1 ELSE -1
        sentiment_sign == IF FNe(sentiment_mean, Zero) THEN FSign(sentiment_mean) ELSE Zero
    IN  FMul(sentiment_sign, Fl(call_put_sign * SCALE))

\* Lines 71-77: alignment * |gap%| * (1 + 0.25 * liquidity) * exp(-penalty).
\* RawScore with the signed gap in place of its absolute value.
RawScoreSignedGap(cols, alignment) ==
    FMul(FMul(FMul(alignment, cols.pricing_gap_pct), cols.liq_factor),
         cols.spread_factor)

RawScore(cols, alignment) ==
    FMul(FMul(FMul(alignment, FAbs(cols.pricing_gap_pct)), cols.liq_factor),
         cols.spread_factor)

\* np.nanmax(np.abs(raw)): the largest |raw| among the entries that are not
\* NaN (0 when there is none: the caller asks np.any(np.isfinite) first).
RECURSIVE NanMaxAbs(_)
NanMaxAbs(raw) ==
    IF raw = <<>>
    THEN 0
    ELSE Max(IF Head(raw).nan THEN 0 ELSE Abs(Head(raw).v), NanMaxAbs(Tail(raw)))

\* 1e-6, the positive floor of the normalisation scale: the smallest
\* positive value of the fixed-point domain.
ScaleFloor == 1

\* Lines 82-86: tanh(raw / scale) * 100, clipped to [-100, 100].
TanhScale(raw, scale) ==
    [i \in DOMAIN raw |->
        FClip(FMul(FTanh(FDiv(raw[i], Fl(scale))), Fl(100 * SCALE)),
              -100 * SCALE, 100 * SCALE)]

\* NormalizeBy without the test nanmax > 0 and without the clip to 100.
NormalizeAnyFinite(raw, nanmax) ==
    IF \E i \in DOMAIN raw : IsFinite(raw[i])
    THEN [i \in DOMAIN raw |->
            FMul(FDiv(raw[i], Fl(Max(nanmax \div 2, ScaleFloor))), Fl(100 * SCALE))]
    ELSE [i \in DOMAIN raw |-> Zero]

\* Lines 79-88: tanh scaling, or 0.0 for every row when no raw score is
\* finite or all of them are 0.
NormalizeBy(raw, nanmax) ==
    IF (\E i \in DOMAIN raw : IsFinite(raw[i])) /\ nanmax > 0
    THEN TanhScale(raw, Max((nanmax * 3) \div 2, ScaleFloor))
    ELSE [i \in DOMAIN raw |-> Zero]

Normalize(raw) == NormalizeBy(raw, NanMaxAbs(raw))

PricingIdle ==
    /\ bs_pc = "idle"
    /\ bs_args = [S |-> NaN, K |-> NaN, T |-> NaN, r |-> NaN, sigma |-> NaN,
                  option_type |-> "call"]
    /\ bs_result = Return(NaN)

\* Optional[float]: None, or a float.
None == [some |-> FALSE, val |-> Zero]

Some(x) == [some |-> TRUE, val |-> x]

\* No store, no clock movement and no pipeline run.
FusionIdle ==
    /\ rss_items = <<>>
    /\ utcnow = 0
    /\ pl_pc = "idle"
    /\ pl_args = [flow |-> "none"]
    /\ pl_result = [ret |-> "none", rss_sent |-> None]

\* The run_pipeline executions that may overlap.
Writers == {1, 2}

IdleWriter == [pc |-> "idle", feeds |-> <<>>, pending |-> <<>>, stored |-> 0]

IdleReader == [pc |-> "idle", op |-> "none", ticker |-> "", hours |-> 0, since |-> 0,
               result |-> None]

\* No database file, no writer and no query.
StoreIdle ==
    /\ db_init = FALSE
    /\ db_lock = 0
    /\ wr = [w \in Writers |-> IdleWriter]
    /\ rd = IdleReader

\* No headline function called.
HeadlineIdle ==
    /\ hl_pc = "idle"
    /\ hl_args = [fn |-> "none"]
    /\ hl_result = [fn |-> "none"]

\* No call of get_spot or _retry_on_rate_limit.
RetryIdle ==
    /\ rt_pc = "idle"
    /\ rt_attempt = 0
    /\ rt_backoff = 0
    /\ rt_log = <<>>
    /\ rt_result = [ret |-> "none"]

\* No cache file and no call of fetch_headlines.
CacheIdle ==
    /\ csv_exists = FALSE
    /\ csv_rows = <<>>
    /\ news_now = 0
    /\ fetch_log = <<>>

\* No run of pipeline_multi_ticker.
PoolIdle ==
    /\ mt_args = [tickers |-> <<>>, market |-> <<>>, parallel |-> 0]
    /\ mt_pc = "idle"
    /\ mt_task = <<>>
    /\ mt_started = <<>>
    /\ mt_all_rows = <<>>
    /\ mt_written = <<>>

\* The empty dict.
EmptyDict == [k \in {} |-> <<>>]

IdleRequest == [pc |-> "idle", ticker |-> <<>>, pos |-> 0, options |-> <<>>]

\* No api_server process.
ApiIdle ==
    /\ api_file = [exists |-> FALSE, rows |-> <<>>]
    /\ api_index = EmptyDict
    /\ api_req = [t \in {1, 2} |-> IdleRequest]
    /\ api_count = 0
    /\ api_loaded = FALSE

\* No run of update_scores.
UpdateIdle ==
    /\ us_pc = "idle"
    /\ us_input = [rows |-> <<>>, spots |-> EmptyDict]
    /\ us_todo = <<>>
    /\ us_scored = <<>>
    /\ us_output = <<>>

WebIdle == ApiIdle /\ UpdateIdle

IoIdle == RetryIdle /\ CacheIdle /\ PoolIdle /\ WebIdle

\* The quotes of the model, in dollars at SCALE.  Pricing profiles
\* (strike, time to expiry, implied volatility): usable, volatility missing,
\* expired.
UsablePricing == <<Fl(100 * SCALE), Fl(SCALE), Fl(2000)>>

PricingProfiles ==
    {UsablePricing,
     <<Fl(100 * SCALE), Fl(SCALE), NaN>>,
     <<Fl(100 * SCALE), Zero, Fl(2000)>>}

\* Further pricing profiles: volatility at the excluded bound 5, strike 0.
EdgePricing ==
    {<<Fl(100 * SCALE), Fl(SCALE), Fl(MaxSigma)>>,
     <<Zero, Fl(SCALE), Fl(2000)>>}

\* Market profiles (bid, ask, lastPrice, volume, openInterest) of the quotes
\* that vary in pricing: no spread at mid 6.00 and at mid 5.00 with equal
\* liquidity, and a quote with no bid, ask, volume or open interest.
TightMarket == <<Fl(6 * SCALE), Fl(6 * SCALE), Fl(6 * SCALE), Fl(500 * SCALE), Fl(500 * SCALE)>>

CoreMarkets ==
    {TightMarket,
     <<Fl(5 * SCALE), Fl(5 * SCALE), Fl(5 * SCALE), Fl(500 * SCALE), Fl(500 * SCALE)>>,
     <<NaN, NaN, Fl(6 * SCALE), NaN, NaN>>}

\* Further market profiles: a wide spread, a crossed market with thin
\* interest, a zero bid, a negative ask, a spread of exactly the mid price,
\* a one-cent mid.
EdgeMarkets ==
    {<<Fl(2 * SCALE), Fl(12 * SCALE), Fl(7 * SCALE), Fl(500 * SCALE), Fl(500 * SCALE)>>,
     <<Fl(6 * SCALE), Fl(5 * SCALE), Fl(5 * SCALE), Fl(5 * SCALE), Fl(4 * SCALE)>>,
     <<Zero, Fl(5 * SCALE), Fl(5 * SCALE), Fl(5 * SCALE), Fl(5 * SCALE)>>,
     <<Fl(5 * SCALE), Fl(-SCALE), NaN, Fl(20 * SCALE), NaN>>,
     <<Fl(4 * SCALE), Fl(12 * SCALE), Fl(8 * SCALE), NaN, Fl(10 * SCALE)>>,
     <<Fl(PriceFloor), Fl(PriceFloor), Zero, Fl(10 * SCALE), NaN>>}

MkRow(option_type, p, m) ==
    OptionRow(option_type, p[1], p[2], p[3], m[1], m[2], m[3], m[4], m[5])

\* Every pricing profile with every core market for calls and puts; the
\* edge profiles for a call that is otherwise usable and tightly quoted.
QuoteRows ==
    {MkRow(ot, p, m) : ot \in OptionTypes, p \in PricingProfiles, m \in CoreMarkets}
    \cup {MkRow("call", UsablePricing, m) : m \in EdgeMarkets}
    \cup {MkRow("call", p, TightMarket) : p \in EdgePricing}

\* The spot prices, the risk-free rate (--r, default 0.045) and the
\* sentiments the pipelines score with.
ScSpots == {Fl(100 * SCALE)}

ScRate == Fl(450)

ScSentiments == {Fl(-SCALE \div 2), Zero, Fl(SCALE \div 2)}

\* RowColumns of the model's quotes, evaluated once.
RowMemo == [row \in QuoteRows, spot \in ScSpots |-> RowColumns(row, spot, ScRate)]

Columns(row, spot, r) ==
    IF row \in QuoteRows /\ spot \in ScSpots /\ r = ScRate
    THEN RowMemo[row, spot]
    ELSE RowColumns(row, spot, r)

\* ScoredTable with the risk flag comparing with >= and <=.
ScoredTableLoose(options_df, cols, align, raw, score) ==
    IF \E i \in DOMAIN options_df : cols[i].raised
    THEN [raised |-> TRUE, rows |-> <<>>]
    ELSE [raised |-> FALSE,
          rows |-> [i \in DOMAIN options_df |->
              options_df[i] @@
              [theo_price |-> cols[i].theo_price,
               pricing_gap |-> cols[i].pricing_gap,
               pricing_gap_pct |-> cols[i].pricing_gap_pct,
               liquidity_score |-> cols[i].liquidity_score,
               spread_penalty |-> cols[i].spread_penalty,
               alignment |-> align[i],
               opportunity_score_raw |-> raw[i],
               opportunity_score |-> score[i],
               risk_flag |-> (FGe(cols[i].spread_penalty, Fl(SCALE))
                              \/ FLe(VolOi(options_df[i]), Fl(10 * SCALE)))]]]

\* Lines 90-94: the returned table, a copy of the chain with the columns added.
ScoredTable(options_df, cols, align, raw, score) ==
    IF \E i \in DOMAIN options_df : cols[i].raised
    THEN [raised |-> TRUE, rows |-> <<>>]
    ELSE [raised |-> FALSE,
          rows |-> [i \in DOMAIN options_df |->
              options_df[i] @@
              [theo_price |-> cols[i].theo_price,
               pricing_gap |-> cols[i].pricing_gap,
               pricing_gap_pct |-> cols[i].pricing_gap_pct,
               liquidity_score |-> cols[i].liquidity_score,
               spread_penalty |-> cols[i].spread_penalty,
               alignment |-> align[i],
               opportunity_score_raw |-> raw[i],
               opportunity_score |-> score[i],
               risk_flag |-> (FGt(cols[i].spread_penalty, Fl(SCALE))
                              \/ FLt(VolOi(options_df[i]), Fl(10 * SCALE)))]]]

NormalizedTable(options_df, cols, align, raw) ==
    ScoredTable(options_df, cols, align, raw, Normalize(raw))

AlignedTable(options_df, cols, align) ==
    NormalizedTable(options_df, cols, align,
                    [i \in DOMAIN options_df |-> RawScore(cols[i], align[i])])

\* compute_scores(options_df, spot, r, sentiment_mean, sentiment_weight):
\* an empty table for an empty chain, else a copy of the chain with the
\* score columns added.  sentiment_weight is not read.
compute_scores(options_df, spot, r, sentiment_mean, sentiment_weight) ==
    IF options_df = <<>>
    THEN [raised |-> FALSE, rows |-> <<>>]
    ELSE AlignedTable(options_df,
                      [i \in DOMAIN options_df |-> Columns(options_df[i], spot, r)],
                      [i \in DOMAIN options_df |->
                          Alignment(options_df[i], sentiment_mean)])

\* The longest chain of the model.
MaxQuotes == 2

RECURSIVE SeqsUpTo(_, _)
SeqsUpTo(S, n) ==
    IF n = 0
    THEN {<<>>}
    ELSE LET shorter == SeqsUpTo(S, n - 1)
         IN  shorter \cup {Append(q, x) : q \in {t \in shorter : Len(t) = n - 1}, x \in S}

\* The values of sentiment_weight: the default 1.0 and one half.
ScWeights == {Fl(SCALE), Fl(SCALE \div 2)}

\* The calls of compute_scores: on a chain, and with None for the chain.
ScArgs ==
    [options_df : SeqsUpTo(QuoteRows, MaxQuotes), options_df_is_none : {FALSE},
     spot : ScSpots, r : {ScRate}, sentiment_mean : ScSentiments,
     sentiment_weight : ScWeights]
    \cup
    [options_df : {<<>>}, options_df_is_none : {TRUE},
     spot : ScSpots, r : {ScRate}, sentiment_mean : ScSentiments,
     sentiment_weight : ScWeights]

\* The caller's table after a call in which df is the caller's table
\* itself: the added columns show in it.
options_df_aliased(options_df, result) ==
    IF result.raised \/ result.rows = <<>> THEN options_df ELSE result.rows

\* The caller's table after the call: df = options_df.copy() is a table of
\* its own, every column assignment goes to it, and options_df keeps its rows.
options_df_after(options_df, result) == options_df

\* compute_scores on the arguments of a call; line 30 returns the empty
\* table for None before the chain is looked at.
compute_scores_call(args) ==
    IF args.options_df_is_none
    THEN [raised |-> FALSE, rows |-> <<>>]
    ELSE compute_scores(args.options_df, args.spot, args.r,
                        args.sentiment_mean, args.sentiment_weight)

ScoringIdle ==
    /\ sc_pc = "idle"
    /\ sc_args = [options_df |-> <<>>, options_df_is_none |-> FALSE, spot |-> NaN, r |-> NaN,
                  sentiment_mean |-> NaN, sentiment_weight |-> NaN]
    /\ sc_result = [raised |-> FALSE, rows |-> <<>>]

ScoringInit ==
    /\ PricingIdle
    /\ FusionIdle
    /\ StoreIdle
    /\ HeadlineIdle
    /\ IoIdle
    /\ sc_pc = "call"
    /\ sc_args \in ScArgs
    /\ sc_result = [raised |-> FALSE, rows |-> <<>>]

\* One call of compute_scores on a chain of get_options_chain.
ComputeScores ==
    /\ sc_pc = "call"
    /\ sc_result' = compute_scores_call(sc_args)
    /\ sc_args' = [sc_args EXCEPT !.options_df = options_df_after(@, sc_result')]
    /\ sc_pc' = "returned"
    /\ UNCHANGED <<pricing_vars, fusion_vars, store_vars, headline_vars, io_vars>>

ScoringNext == ComputeScores

SpecScoring == ScoringInit /\ [][ScoringNext]_vars

\* The rows compute_scores returned, once it has.
Scored == sc_pc = "returned" /\ ~sc_result.raised

ScoredRows == sc_result.rows

\* C2: the normalised score lies in [-100, 100] for every quote when every
\* raw score of the chain is finite, and is exactly 0 for every quote when
\* every raw score is 0 or not finite.
C2_ScoreBoundedAndZero ==
    Scored =>
        /\ (\A i \in DOMAIN ScoredRows : IsFinite(ScoredRows[i].opportunity_score_raw))
            => \A i \in DOMAIN ScoredRows :
                  /\ IsFinite(ScoredRows[i].opportunity_score)
                  /\ ScoredRows[i].opportunity_score.v >= -100 * SCALE
                  /\ ScoredRows[i].opportunity_score.v <= 100 * SCALE
        /\ (\A i \in DOMAIN ScoredRows :
                \/ ~IsFinite(ScoredRows[i].opportunity_score_raw)
                \/ ScoredRows[i].opportunity_score_raw.v = 0)
            => \A i \in DOMAIN ScoredRows : ScoredRows[i].opportunity_score = Zero

\* C2 witness: a chain with a raw score 0 and a raw score NaN, every score 0.
C2_Witness ==
    /\ Scored
    /\ \E i, j \in DOMAIN ScoredRows :
          /\ ScoredRows[i].opportunity_score_raw = Zero
          /\ IsNaN(ScoredRows[j].opportunity_score_raw)
    /\ \A i \in DOMAIN ScoredRows : ScoredRows[i].opportunity_score = Zero

\* C2 second witness: every raw score finite, one score not 0 and in range.
C2_WitnessFinite ==
    /\ Scored
    /\ Len(ScoredRows) = MaxQuotes
    /\ \A i \in DOMAIN ScoredRows : IsFinite(ScoredRows[i].opportunity_score_raw)
    /\ \E i \in DOMAIN ScoredRows : ScoredRows[i].opportunity_score.v > 50 * SCALE


\* The columns of the quote, taken from a row of the returned table.
InputColumns(row, quote) == [f \in DOMAIN quote |-> row[f]]

\* C21: one call of compute_scores returns one record per quote of the
\* chain, record i holding quote i, in a table of its own: the caller's table
\* has the same rows and columns after the call as before; None and an empty
\* chain give an empty table and no exception.
C21_OneRecordPerQuote ==
    [][(sc_pc = "call" /\ sc_pc' = "returned") =>
          /\ sc_args'.options_df = sc_args.options_df
          /\ ~sc_result'.raised
          /\ Len(sc_result'.rows) = Len(sc_args.options_df)
          /\ \A i \in DOMAIN sc_args.options_df :
                InputColumns(sc_result'.rows[i], sc_args.options_df[i])
                    = sc_args.options_df[i]
          /\ (sc_args.options_df_is_none \/ sc_args.options_df = <<>>)
                => sc_result'.rows = <<>>]_vars

\* Two different quotes were scored; the caller's rows have no score column.
C21_Witness ==
    /\ Scored
    /\ Len(ScoredRows) = 2
    /\ sc_args.options_df[1] # sc_args.options_df[2]
    /\ InputColumns(ScoredRows[2], sc_args.options_df[2]) = sc_args.options_df[2]
    /\ "opportunity_score" \in DOMAIN ScoredRows[1]
    /\ "opportunity_score" \notin DOMAIN sc_args.options_df[1]

\* None was passed for the chain.
C21_WitnessNone ==
    /\ Scored
    /\ sc_args.options_df_is_none
    /\ ScoredRows = <<>>

\* C3 (as claimed): a quote whose theoretical price is undefined gets pricing
\* gap 0 and score 0, all four of pricing_gap, pricing_gap_pct,
\* opportunity_score_raw and opportunity_score finite.
C3_UndefinedTheoGivesZero ==
    Scored =>
        \A i \in DOMAIN ScoredRows :
            IsNaN(ScoredRows[i].theo_price)
                => /\ ScoredRows[i].pricing_gap = Zero
                   /\ IsFinite(ScoredRows[i].pricing_gap_pct)
                   /\ ScoredRows[i].opportunity_score_raw = Zero
                   /\ ScoredRows[i].opportunity_score = Zero

\* C4: risk_flag is true exactly when spread_penalty > 1.0 or
\* volume + openInterest < 10, a missing volume or open interest counting as
\* 0; so it is true whenever volume + openInterest < 10, and whenever both
\* sides are quoted and the spread exceeds the mid price.
Count0(x) == IF x.nan THEN 0 ELSE x.v

C4_RiskFlag ==
    Scored =>
        \A i \in DOMAIN ScoredRows :
            LET q == ScoredRows[i]
                thin == Count0(q.volume) + Count0(q.openInterest) < 10 * SCALE
                wide == FGt(q.bid, Zero) /\ FGt(q.ask, Zero)
                        /\ q.ask.v - q.bid.v > q.mid_price.v
            IN  /\ q.risk_flag <=> (q.spread_penalty.v > SCALE \/ thin)
                /\ thin => q.risk_flag
                /\ wide => q.risk_flag

\* C4 witness: a quote flagged for its spread alone, and one with penalty
\* exactly 1.0 and volume + openInterest exactly 10 that is not flagged.
C4_Witness ==
    /\ Scored
    /\ \E i, j \in DOMAIN ScoredRows :
          /\ ScoredRows[i].risk_flag
          /\ Count0(ScoredRows[i].volume) + Count0(ScoredRows[i].openInterest) >= 10 * SCALE
          /\ ScoredRows[j].spread_penalty.v = SCALE
          /\ Count0(ScoredRows[j].volume) + Count0(ScoredRows[j].openInterest) = 10 * SCALE
          /\ ~ScoredRows[j].risk_flag

\* C5: spread_penalty is in [0, 5]; it is 5 when bid or ask is missing, zero
\* or negative (never 0 for an unknown spread), and otherwise
\* (ask - bid) / max(mid, 0.01) clipped to [0, 5], so 0 for a crossed market.
C5_SpreadPenalty ==
    Scored =>
        \A i \in DOMAIN ScoredRows :
            LET q == ScoredRows[i]
                known == FGt(q.bid, Zero) /\ FGt(q.ask, Zero)
            IN  /\ IsFinite(q.spread_penalty)
                /\ q.spread_penalty.v >= 0 /\ q.spread_penalty.v <= 5 * SCALE
                /\ ~known => q.spread_penalty.v = 5 * SCALE
                /\ known => q.spread_penalty.v =
                      Min(Max(DivS(q.ask.v - q.bid.v, Max(q.mid_price.v, SCALE \div 100)), 0),
                          5 * SCALE)
                /\ (known /\ q.ask.v < q.bid.v) => q.spread_penalty.v = 0

\* C5 witness: a chain with a quote without a bid at penalty 5 and a quote
\* of a crossed market at penalty 0.
C5_Witness ==
    /\ Scored
    /\ \E i, j \in DOMAIN ScoredRows :
          /\ IsNaN(ScoredRows[i].bid) /\ ScoredRows[i].spread_penalty.v = 5 * SCALE
          /\ FGt(ScoredRows[j].ask, Zero) /\ FLt(ScoredRows[j].ask, ScoredRows[j].bid)
          /\ ScoredRows[j].spread_penalty = Zero

\* C6: alignment is sign(sentiment_mean) for a call and -sign(sentiment_mean)
\* for a put; with sentiment_mean = 0 every alignment is 0.
C6_Alignment ==
    Scored =>
        \A i \in DOMAIN ScoredRows :
            LET q == ScoredRows[i]
                s == sc_args.sentiment_mean.v
                sign == IF s > 0 THEN SCALE ELSE IF s < 0 THEN -SCALE ELSE 0
            IN  /\ q.option_type = "call" => q.alignment = Fl(sign)
                /\ q.option_type = "put" => q.alignment = Fl(-sign)
                /\ s = 0 => q.alignment = Zero

\* C6 witness: bearish sentiment, a put aligned +1 and a call aligned -1.
C6_Witness ==
    /\ Scored
    /\ sc_args.sentiment_mean.v < 0
    /\ \E i, j \in DOMAIN ScoredRows :
          /\ ScoredRows[i].option_type = "put" /\ ScoredRows[i].alignment = Fl(SCALE)
          /\ ScoredRows[j].option_type = "call" /\ ScoredRows[j].alignment = Fl(-SCALE)

\* C7: of two calls with alignment +1, equal liquidity score and equal spread
\* penalty, the one with the strictly larger |gap%| gets the strictly greater
\* opportunity_score; and normalisation keeps the strict order of any two
\* finite raw scores of a chain.
C7_LargerGapScoresHigher ==
    Scored =>
        \A i, j \in DOMAIN ScoredRows :
            LET a == ScoredRows[i]
                b == ScoredRows[j]
            IN  /\ ( /\ a.option_type = "call" /\ b.option_type = "call"
                     /\ a.alignment = Fl(SCALE) /\ b.alignment = Fl(SCALE)
                     /\ a.liquidity_score = b.liquidity_score
                     /\ a.spread_penalty = b.spread_penalty
                     /\ IsFinite(a.pricing_gap_pct) /\ IsFinite(b.pricing_gap_pct)
                     /\ Abs(a.pricing_gap_pct.v) > Abs(b.pricing_gap_pct.v) )
                   => FGt(a.opportunity_score, b.opportunity_score)
                /\ FGt(a.opportunity_score_raw, b.opportunity_score_raw)
                   => FGt(a.opportunity_score, b.opportunity_score)

\* C7 witness: two such calls in one chain, the larger gap scoring higher.
C7_Witness ==
    /\ Scored
    /\ \E i, j \in DOMAIN ScoredRows :
          /\ ScoredRows[i].option_type = "call" /\ ScoredRows[j].option_type = "call"
          /\ ScoredRows[i].alignment = Fl(SCALE) /\ ScoredRows[j].alignment = Fl(SCALE)
          /\ ScoredRows[i].liquidity_score = ScoredRows[j].liquidity_score
          /\ ScoredRows[i].spread_penalty = ScoredRows[j].spread_penalty
          /\ FGt(FAbs(ScoredRows[i].pricing_gap_pct), FAbs(ScoredRows[j].pricing_gap_pct))
          /\ FGt(ScoredRows[i].opportunity_score, ScoredRows[j].opportunity_score)

\* The call with the default sentiment_weight = 1.0 and the other arguments
\* as they are.
DefaultWeightResult == compute_scores_call([sc_args EXCEPT !.sentiment_weight = Fl(SCALE)])

\* A quote the sentiment disfavours (alignment -1) and the mispricing
\* favours: its market price is below the theoretical price.
Softenable ==
    \E i \in DOMAIN ScoredRows :
        /\ ScoredRows[i].alignment = Fl(-SCALE)
        /\ FLt(ScoredRows[i].pricing_gap, Zero)

\* No value of sentiment_weight changes anything compute_scores returns.
SentimentWeightIgnored == Scored => sc_result = DefaultWeightResult

\* C23: compute_scores honours sentiment_weight: with a weight below 1 the
\* direction of the mispricing softens the sentiment-only alignment, so on a
\* chain with a quote that sentiment disfavours and mispricing favours the
\* alignments or scores differ from those of the default weight 1.0.
C23_WeightSoftensAlignment ==
    (Scored /\ FLt(sc_args.sentiment_weight, Fl(SCALE)) /\ Softenable)
        => \E i \in DOMAIN ScoredRows :
              \/ ScoredRows[i].alignment # DefaultWeightResult.rows[i].alignment
              \/ ScoredRows[i].opportunity_score
                    # DefaultWeightResult.rows[i].opportunity_score

\* The arguments a caller may hand to bs_price: valid values, zero, negative
\* values and NaN, in dollars, years and rates.
BsSpots == {NaN, Fl(-100 * SCALE), Zero, Fl(100 * SCALE)}

BsStrikes == {NaN, Fl(-100 * SCALE), Zero, Fl(90 * SCALE), Fl(100 * SCALE)}

BsTimes == {NaN, Fl(-SCALE), Zero, Fl(SCALE \div 4), Fl(SCALE)}

BsRates == {Fl(450), Fl(500)}

BsSigmas == {NaN, Fl(-2000), Zero, Fl(2000)}

BsArgs == [S : BsSpots, K : BsStrikes, T : BsTimes, r : BsRates,
           sigma : BsSigmas, option_type : OptionTypes]

PricingInit ==
    /\ ScoringIdle
    /\ FusionIdle
    /\ StoreIdle
    /\ HeadlineIdle
    /\ IoIdle
    /\ bs_pc = "call"
    /\ bs_args \in BsArgs
    /\ bs_result = Return(NaN)

\* One call bs_price(S, K, T, r, sigma, option_type).
BsPrice ==
    /\ bs_pc = "call"
    /\ bs_result' = bs_price(bs_args.S, bs_args.K, bs_args.T, bs_args.r,
                             bs_args.sigma, bs_args.option_type)
    /\ bs_pc' = "returned"
    /\ UNCHANGED <<bs_args, scoring_vars, fusion_vars, store_vars, headline_vars, io_vars>>

PricingNext == BsPrice

SpecPricing == PricingInit /\ [][PricingNext]_vars

\* The guard of bs_price as the contract words it.
BsInvalid(a) ==
    FLe(a.T, Zero) \/ FLe(a.sigma, Zero) \/ FLe(a.S, Zero) \/ FLe(a.K, Zero)

\* C1: whenever T <= 0 or sigma <= 0 or S <= 0 or K <= 0, bs_price returns
\* NaN for a call and for a put: it raises no exception and does not return
\* zero or any other number, whatever the other arguments are (NaN included).
C1_InvalidInputsGiveNaN ==
    (bs_pc = "returned" /\ BsInvalid(bs_args))
        => (~bs_result.raised /\ IsNaN(bs_result.val))

\* C1 witness: a put with T = 0 and otherwise valid arguments has returned NaN.
C1_Witness ==
    /\ bs_pc = "returned"
    /\ bs_args.option_type = "put"
    /\ bs_args.T = Zero
    /\ FGt(bs_args.S, Zero) /\ FGt(bs_args.K, Zero) /\ FGt(bs_args.sigma, Zero)
    /\ ~bs_result.raised /\ IsNaN(bs_result.val)

\* The arguments of the self test: at the money, one year, 5 % and 20 %.
SelfTestArgs(a) ==
    /\ FGt(a.S, Zero)
    /\ a.S = a.K
    /\ a.T = Fl(SCALE)
    /\ a.r = Fl(500)
    /\ a.sigma = Fl(2000)

\* The call of the self test is priced between 10.0 and 11.0.
SelfTestCallInRange ==
    (bs_pc = "returned" /\ SelfTestArgs(bs_args) /\ bs_args.option_type = "call")
        => /\ ~bs_result.raised
           /\ FGe(bs_result.val, Fl(10 * SCALE))
           /\ FLe(bs_result.val, Fl(11 * SCALE))

\* C22: for S = K, T = 1, r = 0.05 and sigma = 0.2 bs_price returns a call
\* price within [10.0, 11.0] and a put price within [1.0, 1.5].
C22_SelfTestRanges ==
    (bs_pc = "returned" /\ SelfTestArgs(bs_args))
        => /\ ~bs_result.raised
           /\ bs_args.option_type = "call" =>
                 /\ FGe(bs_result.val, Fl(10 * SCALE))
                 /\ FLe(bs_result.val, Fl(11 * SCALE))
           /\ bs_args.option_type = "put" =>
                 /\ FGe(bs_result.val, Fl(SCALE))
                 /\ FLe(bs_result.val, Fl(SCALE + SCALE \div 2))

\* ---------------------------------------------------------------------
\* rss_sentiment.py: the items table and its two averages.

\* Python's round(total / n, 4) at SCALE: nearest, ties to even.
RoundDiv(total, n) ==
    LET q == total \div n
        rem == total % n
    IN  IF 2 * rem < n THEN q
        ELSE IF 2 * rem > n THEN q + 1
        ELSE IF q % 2 = 0 THEN q ELSE q + 1

RECURSIVE SumSentiment(_)
SumSentiment(rows) ==
    IF rows = <<>> THEN 0 ELSE Head(rows).sentiment.v + SumSentiment(Tail(rows))

\* WHERE ts >= since, with since = utcnow() - timedelta(hours).
InWindow(item, now, hours) == item.ts >= now - hours

\* HasTicker looking at the first ticker of a row only.
HasTickerFirst(item, ticker) == item.tickers # <<>> /\ item.tickers[1] = ticker

\* The comma-separated tickers of a row hold the ticker.
HasTicker(item, ticker) == \E k \in DOMAIN item.tickers : item.tickers[k] = ticker

AverageOf(sentiments) ==
    IF sentiments = <<>>
    THEN None
    ELSE Some(Fl(RoundDiv(SumSentiment(sentiments), Len(sentiments))))

\* store_item: one row stamped with the clock.
store_item(items, now, entry) ==
    Append(items, [ts |-> now, source |-> entry.source, title |-> entry.title,
                   sentiment |-> entry.sentiment, tickers |-> entry.tickers])

\* run_pipeline: every entry of every feed stored, then one commit.
RECURSIVE run_pipeline(_, _, _)
run_pipeline(items, now, entries) ==
    IF entries = <<>>
    THEN items
    ELSE run_pipeline(store_item(items, now, Head(entries)), now, Tail(entries))

\* rolling_sentiment / get_rolling_sentiment: AVG(sentiment) over the window,
\* rounded to four decimals; None when no row is in the window or the
\* table is missing.
get_rolling_sentiment(items, now, hours) ==
    AverageOf(SelectSeq(items, LAMBDA it : InWindow(it, now, hours)))

\* get_ticker_sentiment: the rows of the window with tickers != '' that
\* name the ticker, averaged and rounded; None when there is none.
get_ticker_sentiment(items, now, ticker, hours) ==
    IF ticker = ""
    THEN None
    ELSE AverageOf(SelectSeq(items,
            LAMBDA it : InWindow(it, now, hours) /\ it.tickers # <<>>
                        /\ HasTicker(it, ticker)))

\* ---------------------------------------------------------------------
\* pipeline.py and pipeline_multi_ticker.py: sentiment fusion.

\* Python's min(a, b) and max(a, b) of two floats: the second argument only
\* when it compares strictly below (above) the first.
PyMin(a, b) == IF FLt(b, a) THEN b ELSE a

PyMax(a, b) == IF FGt(b, a) THEN b ELSE a

\* Clamp01 without the clamp.
Clamp01Identity(w) == w

\* w = max(0.0, min(1.0, args.rss_weight))
Clamp01(w) == PyMax(Zero, PyMin(Fl(SCALE), w))

\* Python's a or b on Optional[float]: None and 0.0 are falsy.
PyOr(a, b) == IF a.some /\ (a.val.nan \/ a.val.v # 0) THEN a ELSE b

\* rss_sent = get_ticker_sentiment(ticker, hours) or get_rolling_sentiment(hours)
RssSent(items, now, ticker, hours) ==
    PyOr(get_ticker_sentiment(items, now, ticker, hours),
         get_rolling_sentiment(items, now, hours))

\* (1 - w) * sentiment_mean + w * rss_sent
Blend(w, sentiment_mean, rss_sent) ==
    FAdd(FMul(FSub(Fl(SCALE), w), sentiment_mean), FMul(w, rss_sent))

Fused(rss_sent, sentiment_mean) == [rss_sent |-> rss_sent, sentiment_mean |-> sentiment_mean]

\* pipeline.main, lines 291-300, from the rss_sent it resolved.
main_blend(a, rss_sent) ==
    IF rss_sent.some
    THEN Fused(rss_sent, Blend(Clamp01(a.rss_weight), a.news_sentiment, rss_sent.val))
    ELSE Fused(rss_sent, a.news_sentiment)

\* pipeline.main, lines 291-300.
main_fusion(a, items, now) ==
    IF ~a.no_rss /\ FGt(a.rss_weight, Zero)
    THEN main_blend(a, RssSent(items, now, a.ticker, a.rss_hours))
    ELSE Fused(None, a.news_sentiment)

\* pipeline._run_multi_ticker, lines 153-161, from the rss_sent it resolved.
run_multi_ticker_blend(a, rss_sent) ==
    IF rss_sent.some
    THEN Fused(rss_sent, Blend(Clamp01(a.rss_weight), a.news_sentiment, rss_sent.val))
    ELSE Fused(rss_sent, a.news_sentiment)

\* pipeline._run_multi_ticker, lines 153-161.
run_multi_ticker_fusion(a, items, now) ==
    IF ~a.no_rss
    THEN run_multi_ticker_blend(a, RssSent(items, now, a.ticker, a.rss_hours))
    ELSE Fused(None, a.news_sentiment)

\* The window of pipeline_multi_ticker._process_ticker, in hours.
ProcessTickerHours == 24

\* _process_ticker's blend with no data taken for a sentiment of 0.0.
process_ticker_blend_zero(a, rss_sent) ==
    Fused(rss_sent, FAdd(FMul(Fl(7500), a.news_sentiment), FMul(Fl(2500), rss_sent.val)))

\* pipeline_multi_ticker._process_ticker, lines 244-252, from the rss_sent it
\* resolved: 0.75 * sentiment_mean + 0.25 * rss_sent.
process_ticker_blend(a, rss_sent) ==
    IF rss_sent.some
    THEN Fused(rss_sent, FAdd(FMul(Fl(7500), a.news_sentiment), FMul(Fl(2500), rss_sent.val)))
    ELSE Fused(rss_sent, a.news_sentiment)

\* pipeline_multi_ticker._process_ticker, lines 244-252.
process_ticker_fusion(a, items, now) ==
    IF ~a.no_rss
    THEN process_ticker_blend(a, RssSent(items, now, a.ticker, ProcessTickerHours))
    ELSE Fused(None, a.news_sentiment)

\* ---------------------------------------------------------------------
\* The store and one pipeline run.

\* Bounds of the store and of the clock.
MaxItems == 2

TickHours == 30

MaxClock == 30

\* What score_sentiment and extract_tickers make of a feed entry: a text
\* without lexicon words that names AAPL, a bullish text without cashtag, a
\* bearish text that names MSFT and AAPL, a bullish text that names AAPL.
Entries ==
    {[source |-> "stocks", title |-> "holding", sentiment |-> Zero, tickers |-> <<"AAPL">>],
     [source |-> "stocks", title |-> "rally", sentiment |-> Fl(5000), tickers |-> <<>>],
     [source |-> "markets", title |-> "crash", sentiment |-> Fl(-5000),
      tickers |-> <<"MSFT", "AAPL">>],
     [source |-> "markets", title |-> "surge", sentiment |-> Fl(5000), tickers |-> <<"AAPL">>]}

PlTickers == {"AAPL", "MSFT"}

\* get_spot's result: a price, or NaN when the fetch failed.
PlSpots == ScSpots \cup {NaN}

\* The mean score of the headlines, four decimals.
PlNewsSentiments == {Fl(5000), Fl(-2000)}

\* --rss-weight: below, at and above the ends of [0, 1], and the default.
PlWeights == {Fl(-5000), Zero, Fl(2500), Fl(SCALE), Fl(15000)}

\* --rss-hours: the default and two days.
PlHours == {24, 48}

PipelineArgs(flow) ==
    [flow : {flow}, ticker : PlTickers, spot : PlSpots,
     news_sentiment : PlNewsSentiments, rss_weight : PlWeights,
     no_rss : BOOLEAN, rss_hours : PlHours]

ProcessTickerArgs ==
    [flow : {"_process_ticker"}, ticker : PlTickers, spot : PlSpots,
     news_sentiment : PlNewsSentiments, no_rss : BOOLEAN]

\* The chain get_options_chain returned: a call and a put, both usable.
PlChain == <<MkRow("call", UsablePricing, TightMarket), MkRow("put", UsablePricing, TightMarket)>>

FusionInit ==
    /\ PricingIdle
    /\ ScoringIdle
    /\ FusionIdle
    /\ StoreIdle
    /\ HeadlineIdle
    /\ IoIdle

\* rss_sentiment.run_pipeline on feeds with some entries: the rows are
\* stored and committed.  The feed runs before the pipeline run a behaviour
\* ends with.
RunPipeline ==
    /\ pl_pc = "idle"
    /\ Len(rss_items) < MaxItems
    /\ \E entries \in SeqsUpTo(Entries, MaxItems - Len(rss_items)) \ {<<>>} :
          rss_items' = run_pipeline(rss_items, utcnow, entries)
    /\ UNCHANGED <<utcnow, pl_pc, pl_args, pl_result, pricing_vars, scoring_vars, store_vars, headline_vars, io_vars>>

\* Time passes between feed runs and the pipeline run.
Tick ==
    /\ pl_pc = "idle"
    /\ \A w \in Writers : wr[w].pc # "feeds"
    /\ utcnow + TickHours <= MaxClock
    /\ utcnow' = utcnow + TickHours
    /\ UNCHANGED <<rss_items, pl_pc, pl_args, pl_result, pricing_vars, scoring_vars, store_vars, headline_vars, io_vars>>

\* The run ends before scoring: no spot price.
NoSpot(a) ==
    /\ pl_pc' = "returned"
    /\ pl_args' = a
    /\ pl_result' = [ret |-> "no_spot", rss_sent |-> None]
    /\ UNCHANGED <<rss_items, utcnow, pricing_vars, scoring_vars, store_vars, headline_vars, io_vars>>

\* compute_scores(options_df, spot, args.r, sentiment_mean) with the fused
\* sentiment; sentiment_weight keeps its default 1.0.
ScoreWith(a, fused) ==
    /\ pl_pc' = "returned"
    /\ pl_args' = a
    /\ pl_result' = [ret |-> "scored", rss_sent |-> fused.rss_sent]
    /\ sc_pc' = "returned"
    /\ sc_args' = [options_df |-> PlChain, options_df_is_none |-> FALSE,
                   spot |-> a.spot, r |-> ScRate,
                   sentiment_mean |-> fused.sentiment_mean,
                   sentiment_weight |-> Fl(SCALE)]
    /\ sc_result' = compute_scores(PlChain, a.spot, ScRate, fused.sentiment_mean, Fl(SCALE))
    /\ UNCHANGED <<rss_items, utcnow, pricing_vars, store_vars, headline_vars, io_vars>>

\* pipeline.main for one ticker: spot and chain, headline sentiment, fusion,
\* scoring.
Main ==
    /\ pl_pc = "idle"
    /\ \E a \in PipelineArgs("main") :
          IF IsNaN(a.spot)
          THEN NoSpot(a)
          ELSE ScoreWith(a, main_fusion(a, rss_items, utcnow))

\* pipeline._run_multi_ticker, the body of its loop for one ticker.
RunMultiTicker ==
    /\ pl_pc = "idle"
    /\ \E a \in PipelineArgs("_run_multi_ticker") :
          IF IsNaN(a.spot) \/ FLe(a.spot, Zero)
          THEN NoSpot(a)
          ELSE ScoreWith(a, run_multi_ticker_fusion(a, rss_items, utcnow))

\* pipeline_multi_ticker._process_ticker for one ticker.
ProcessTicker ==
    /\ pl_pc = "idle"
    /\ \E a \in ProcessTickerArgs :
          IF IsNaN(a.spot) \/ FLe(a.spot, Zero)
          THEN NoSpot(a)
          ELSE ScoreWith(a, process_ticker_fusion(a, rss_items, utcnow))

FusionNext == RunPipeline \/ Tick \/ Main \/ RunMultiTicker \/ ProcessTicker

SpecFusion == FusionInit /\ [][FusionNext]_vars

\* A pipeline run that reached compute_scores, and the sentiment it passed.
PlScored == pl_pc = "returned" /\ pl_result.ret = "scored"

Passed == sc_args.sentiment_mean

\* The window the run's flow queries the store with.
PlWindow == IF pl_args.flow = "_process_ticker" THEN ProcessTickerHours ELSE pl_args.rss_hours

\* C8: in pipeline.main and pipeline._run_multi_ticker, a weight of 0 or
\* below passes exactly the headline sentiment to compute_scores, and a
\* weight of 1 or above (1.5 as 1.0) passes exactly the social sentiment the
\* run resolved from the store, the per-ticker or the rolling mean.
C8_WeightEnds ==
    (PlScored /\ pl_args.flow \in {"main", "_run_multi_ticker"}) =>
        /\ pl_args.rss_weight.v <= 0 => Passed = pl_args.news_sentiment
        /\ (pl_args.rss_weight.v >= SCALE /\ pl_result.rss_sent.some)
            => /\ Passed = pl_result.rss_sent.val
               /\ pl_result.rss_sent \in
                    {get_ticker_sentiment(rss_items, utcnow, pl_args.ticker, PlWindow),
                     get_rolling_sentiment(rss_items, utcnow, PlWindow)}

\* C8 witness: main with weight 1.5 and a social sentiment that differs from
\* the headline sentiment.
C8_Witness ==
    /\ PlScored
    /\ pl_args.flow = "main"
    /\ pl_args.rss_weight = Fl(15000)
    /\ pl_result.rss_sent.some
    /\ pl_result.rss_sent.val # pl_args.news_sentiment
    /\ Passed = pl_result.rss_sent.val

\* C8 second witness: _run_multi_ticker with a negative weight and social
\* data in the window.
C8_WitnessNegative ==
    /\ PlScored
    /\ pl_args.flow = "_run_multi_ticker"
    /\ pl_args.rss_weight.v < 0
    /\ pl_result.rss_sent.some
    /\ pl_result.rss_sent.val # pl_args.news_sentiment
    /\ Passed = pl_args.news_sentiment

\* C9: when RSS is disabled, or no row of the store lies in the window (so
\* the per-ticker and the rolling query both return None), the sentiment
\* passed to compute_scores is the headline sentiment, for every weight, in
\* main, _run_multi_ticker and _process_ticker.
C9_NoSocialKeepsHeadline ==
    PlScored =>
        ((pl_args.no_rss
          \/ \A k \in DOMAIN rss_items : rss_items[k].ts < utcnow - PlWindow)
            => Passed = pl_args.news_sentiment)

\* C9 witness: _process_ticker with RSS enabled and a store whose rows are
\* all older than the window.
C9_Witness ==
    /\ PlScored
    /\ pl_args.flow = "_process_ticker"
    /\ ~pl_args.no_rss
    /\ rss_items # <<>>
    /\ \A k \in DOMAIN rss_items : rss_items[k].ts < utcnow - PlWindow
    /\ Passed = pl_args.news_sentiment

\* The weight a flow blends with: the clamped --rss-weight, or 0.25.
PlWeight ==
    IF pl_args.flow = "_process_ticker"
    THEN Fl(2500)
    ELSE Fl(Max(0, Min(SCALE, pl_args.rss_weight.v)))

\* C10 (as claimed): when the per-ticker query returns 0.0 for the ticker,
\* fusion uses 0.0 as the social value, fused = (1 - w) * headline + w * 0.0,
\* in every flow that consults the store.
C10_GenuineZeroIsUsed ==
    ( /\ PlScored
      /\ ~pl_args.no_rss
      /\ pl_args.flow = "main" => pl_args.rss_weight.v > 0
      /\ get_ticker_sentiment(rss_items, utcnow, pl_args.ticker, PlWindow) = Some(Zero) )
        => Passed = FAdd(FMul(FSub(Fl(SCALE), PlWeight), pl_args.news_sentiment),
                         FMul(PlWeight, Zero))

\* ---------------------------------------------------------------------
\* rss_sentiment.py: the store under overlapping run_pipeline executions
\* and queries.  Each execution and each query has its own connection
\* (get_connection); sqlite3 opens a transaction at a connection's first
\* INSERT, which takes the database's single write lock and keeps it until
\* commit or close; a second connection's INSERT waits for the lock for the
\* connect timeout and then raises "database is locked"; a commit waits for
\* the reads in progress.

\* Bounds of the store specification.
MaxRows == 3

\* init_db with the table dropped and created anew.
init_db_recreate(items) == <<>>

\* init_db: CREATE TABLE IF NOT EXISTS and CREATE INDEX IF NOT EXISTS leave
\* the rows of an existing table alone.
init_db(items) == items

\* The entries of the feeds: a neutral text naming AAPL, a bullish text
\* without cashtag, a bearish text naming MSFT and AAPL.
StoreEntries ==
    {[source |-> "stocks", title |-> "holding", sentiment |-> Zero, tickers |-> <<"AAPL">>],
     [source |-> "stocks", title |-> "rally", sentiment |-> Fl(5000), tickers |-> <<>>],
     [source |-> "markets", title |-> "crash", sentiment |-> Fl(-5000),
      tickers |-> <<"MSFT", "AAPL">>]}

\* What fetch_rss gives for a feed URL: nothing (the fetch failed or the
\* feed is empty), or one entry.
FeedKinds == {<<>>} \cup {<<e>> : e \in StoreEntries}

\* The feed lists of an execution: one feed, or two.
Runs == {<<f>> : f \in FeedKinds} \cup {<<f, g>> : f \in FeedKinds, g \in FeedKinds}

RECURSIVE RunSize(_)
RunSize(feeds) == IF feeds = <<>> THEN 0 ELSE Len(Head(feeds)) + RunSize(Tail(feeds))

\* Rows stored, pending or still to come.
RowsInFlight ==
    Len(rss_items) + Len(wr[1].pending) + RunSize(wr[1].feeds)
                   + Len(wr[2].pending) + RunSize(wr[2].feeds)

StoreTickers == {"AAPL", "MSFT"}

StoreHours == {24, 48}

StoreInit ==
    /\ PricingIdle
    /\ ScoringIdle
    /\ FusionIdle
    /\ StoreIdle
    /\ HeadlineIdle
    /\ IoIdle

\* run_pipeline, lines 161-162: a connection, and init_db on it.  Execution 2
\* is the one that starts while execution 1 is under way.
StartRun(w) ==
    /\ wr[w].pc # "feeds"
    /\ w = 2 => wr[1].pc = "feeds"
    /\ \E feeds \in Runs :
          /\ RowsInFlight + RunSize(feeds) <= MaxRows
          /\ wr' = [wr EXCEPT ![w] = [pc |-> "feeds", feeds |-> feeds, pending |-> <<>>,
                                             stored |-> 0]]
    /\ db_init' = TRUE
    /\ rss_items' = init_db(rss_items)
    /\ UNCHANGED <<utcnow, pl_pc, pl_args, pl_result, db_lock, rd, pricing_vars, scoring_vars, headline_vars, io_vars>>

\* Lines 164-167: a feed that does not fetch or has no entries is skipped.
SkipFeed(w) ==
    /\ wr[w].pc = "feeds"
    /\ wr[w].feeds # <<>>
    /\ Head(wr[w].feeds) = <<>>
    /\ wr' = [wr EXCEPT ![w].feeds = Tail(@)]
    /\ UNCHANGED <<fusion_vars, db_init, db_lock, rd, pricing_vars, scoring_vars, headline_vars, io_vars>>

\* What is left of the feeds once the first entry is stored.
AfterEntry(feeds) ==
    IF Len(Head(feeds)) = 1 THEN Tail(feeds) ELSE <<Tail(Head(feeds))>> \o Tail(feeds)

\* Lines 169-174: store_item for the next entry; the INSERT takes the write
\* lock, or finds it with this connection.
StoreEntry(w) ==
    /\ wr[w].pc = "feeds"
    /\ wr[w].feeds # <<>>
    /\ Head(wr[w].feeds) # <<>>
    /\ db_lock \in {0, w}
    /\ db_lock' = w
    /\ wr' = [wr EXCEPT ![w].pending = store_item(@, utcnow, Head(Head(wr[w].feeds))),
                        ![w].feeds = AfterEntry(@),
                        ![w].stored = @ + 1]
    /\ UNCHANGED <<fusion_vars, db_init, rd, pricing_vars, scoring_vars, headline_vars, io_vars>>

\* Lines 169-177: the INSERT finds the write lock with the other execution
\* for longer than the timeout; the exception leaves run_pipeline through
\* conn.close() and nothing of the run is stored.
Locked(w) ==
    /\ wr[w].pc = "feeds"
    /\ wr[w].feeds # <<>>
    /\ Head(wr[w].feeds) # <<>>
    /\ db_lock \notin {0, w}
    /\ wr' = [wr EXCEPT ![w] = [pc |-> "failed", feeds |-> <<>>, pending |-> <<>>,
                                  stored |-> 0]]
    /\ UNCHANGED <<fusion_vars, db_init, db_lock, rd, pricing_vars, scoring_vars, headline_vars, io_vars>>

\* conn.close() with the rows of the open transaction written to the table.
close_commits(items, pending) == items \o pending

\* Line 177 reached without line 175: conn.close() on an open transaction
\* rolls it back.
close_uncommitted(items, pending) == items

\* Lines 168-177: an exception escapes while an entry is processed (the
\* INSERT of store_item fails on the disk, or the text of the entry cannot
\* be joined); the finally clause closes the connection and run_pipeline
\* raises.  stored keeps the number of rows the run had inserted.
EntryRaises(w) ==
    /\ wr[w].pc = "feeds"
    /\ wr[w].feeds # <<>>
    /\ Head(wr[w].feeds) # <<>>
    /\ db_lock \in {0, w}
    /\ rss_items' = close_uncommitted(rss_items, wr[w].pending)
    /\ db_lock' = 0
    /\ wr' = [wr EXCEPT ![w] = [pc |-> "raised", feeds |-> <<>>, pending |-> <<>>,
                                  stored |-> wr[w].stored]]
    /\ UNCHANGED <<utcnow, pl_pc, pl_args, pl_result, db_init, rd, pricing_vars, scoring_vars, headline_vars, io_vars>>

\* Lines 175-177: conn.commit() after the last feed, and conn.close(); a
\* commit of rows waits while a query reads.
Commit(w) ==
    /\ wr[w].pc = "feeds"
    /\ wr[w].feeds = <<>>
    /\ wr[w].pending = <<>> \/ rd.pc # "reading"
    /\ rss_items' = rss_items \o wr[w].pending
    /\ db_lock' = IF db_lock = w THEN 0 ELSE db_lock
    /\ wr' = [wr EXCEPT ![w] = IdleWriter]
    /\ UNCHANGED <<utcnow, pl_pc, pl_args, pl_result, db_init, rd, pricing_vars, scoring_vars, headline_vars, io_vars>>

\* What a query returns: the committed rows only.
QueryResult(op, ticker, hours) ==
    IF op = "rolling"
    THEN get_rolling_sentiment(rss_items, utcnow, hours)
    ELSE get_ticker_sentiment(rss_items, utcnow, ticker, hours)

\* get_rolling_sentiment(hours) or get_ticker_sentiment(ticker, hours): since
\* is taken from the clock and the SELECT reads.
QueryBegin ==
    /\ rd.pc # "reading"
    /\ \E op \in {"rolling", "ticker"}, ticker \in StoreTickers, hours \in StoreHours :
          /\ op = "rolling" => ticker = "AAPL"
          /\ rd' = [pc |-> "reading", op |-> op, ticker |-> ticker, hours |-> hours,
                    since |-> utcnow - hours,
                    result |-> QueryResult(op, ticker, hours)]
    /\ UNCHANGED <<fusion_vars, db_init, db_lock, wr, pricing_vars, scoring_vars, headline_vars, io_vars>>

\* The query closes its connection and returns.
QueryEnd ==
    /\ rd.pc = "reading"
    /\ rd' = IdleReader
    /\ UNCHANGED <<fusion_vars, db_init, db_lock, wr, pricing_vars, scoring_vars, headline_vars, io_vars>>

StoreNext ==
    \/ \E w \in Writers : StartRun(w)
    \/ \E w \in Writers : SkipFeed(w)
    \/ \E w \in Writers : StoreEntry(w)
    \/ \E w \in Writers : Locked(w)
    \/ \E w \in Writers : EntryRaises(w)
    \/ \E w \in Writers : Commit(w)
    \/ QueryBegin
    \/ QueryEnd
    \/ Tick

SpecStore == StoreInit /\ [][StoreNext]_vars

\* A query that has read the store; the rows it read are rss_items, since a
\* commit of rows waits for it.
Reading(op) == rd.pc = "reading" /\ rd.op = op

\* C11 (as claimed): a rolling query made before any insertion returns None,
\* and a rolling query over a window that covers all N >= 1 stored events
\* returns their exact arithmetic mean: N times the result is their sum.
C11_RollingMeanExact ==
    Reading("rolling") =>
        IF rss_items = <<>>
        THEN rd.result = None
        ELSE (\A k \in DOMAIN rss_items : rss_items[k].ts >= rd.since)
                => /\ rd.result.some
                   /\ rd.result.val.v * Len(rss_items) = SumSentiment(rss_items)

\* The rows of the store a per-ticker query selects: in the window, the
\* ticker among the tags.
TickerRows ==
    {k \in DOMAIN rss_items :
        /\ rss_items[k].ts >= rd.since
        /\ rd.ticker \in {rss_items[k].tickers[j] : j \in DOMAIN rss_items[k].tickers}}

RECURSIVE SumRows(_)
SumRows(ks) ==
    IF ks = {}
    THEN 0
    ELSE LET k == CHOOSE x \in ks : TRUE
         IN  rss_items[k].sentiment.v + SumRows(ks \ {k})

\* C12: get_ticker_sentiment(t, hours) returns None when no event of the
\* window is tagged t, and otherwise the mean (to four decimals) of exactly
\* the events of the window whose tags contain t, each counted once: an
\* event with several tags counts for each of them, one without tags for
\* none.
C12_TickerAverage ==
    Reading("ticker") =>
        IF TickerRows = {}
        THEN rd.result = None
        ELSE rd.result = Some(Fl(RoundDiv(SumRows(TickerRows), Cardinality(TickerRows))))

\* C12 witness: a query for MSFT over a store with an event tagged MSFT and
\* AAPL, an event tagged AAPL alone and an event without tags, all in the
\* window; the average is that of the one event tagged MSFT.
C12_Witness ==
    /\ Reading("ticker")
    /\ rd.ticker = "MSFT"
    /\ Len(rss_items) = MaxRows
    /\ \A k \in DOMAIN rss_items : rss_items[k].ts >= rd.since
    /\ \E i, j, k \in DOMAIN rss_items :
          /\ rss_items[i].tickers = <<"MSFT", "AAPL">>
          /\ rss_items[j].tickers = <<"AAPL">>
          /\ rss_items[k].tickers = <<>>
    /\ rd.result = Some(Fl(-5000))

\* C13: the store is append-only: every step leaves the rows stored so far
\* in place and unchanged (timestamp, source, title, sentiment, tickers) and
\* never lowers their number.
C13_AppendOnly ==
    [][/\ Len(rss_items') >= Len(rss_items)
       /\ SubSeq(rss_items', 1, Len(rss_items)) = rss_items]_vars

\* C13 witness: rows of an earlier run are stored, a later run_pipeline has
\* called init_db and holds rows of its own, and a query is reading.
C13_Witness ==
    /\ rss_items # <<>>
    /\ wr[1].pc = "feeds"
    /\ wr[1].pending # <<>>
    /\ wr[1].pending[1].ts > rss_items[1].ts
    /\ rd.pc = "reading"

\* C28: the events of a run are stored all together or not at all.  The
\* table changes only when a run that has gone through all its feeds
\* commits, and then by all the rows the run inserted, in order; a run that
\* an exception leaves stores nothing, then or later; a feed that is skipped
\* leaves the rows inserted so far in the transaction, and every entry of
\* the other feeds adds its row to it.
C28_AllOrNothing ==
    [][/\ rss_items' # rss_items =>
             \E w \in Writers :
                /\ wr[w].pc = "feeds"
                /\ wr[w].feeds = <<>>
                /\ Len(wr[w].pending) = wr[w].stored
                /\ rss_items' = rss_items \o wr[w].pending
                /\ wr'[w].pc = "idle"
       /\ \A w \in Writers :
             /\ (wr[w].pc = "feeds" /\ wr'[w].pc \in {"failed", "raised"}) =>
                   /\ rss_items' = rss_items
                   /\ wr'[w].pending = <<>>
             /\ (wr[w].pc = "feeds" /\ wr'[w].pc = "idle") =>
                   /\ wr[w].feeds = <<>>
                   /\ Len(rss_items') = Len(rss_items) + wr[w].stored
             /\ (wr[w].pc = "feeds" /\ wr'[w].pc = "feeds" /\ wr'[w].feeds # wr[w].feeds) =>
                   IF Head(wr[w].feeds) = <<>>
                   THEN wr'[w].pending = wr[w].pending
                   ELSE /\ Len(wr'[w].pending) = Len(wr[w].pending) + 1
                        /\ wr'[w].pending[Len(wr'[w].pending)].title
                              = Head(Head(wr[w].feeds)).title
             /\ wr[w].pc \in {"failed", "raised"} => wr[w].pending = <<>>]_vars

\* C28 witness: an exception has left a run that had inserted a row; the
\* table is empty.
C28_Witness ==
    /\ wr[1].pc = "raised"
    /\ wr[1].stored >= 1
    /\ rss_items = <<>>

\* C14 (as claimed): of two overlapping run_pipeline executions neither
\* fails because the other holds its write transaction open.
C14_WritersIndependent == \A w \in Writers : wr[w].pc # "failed"

\* ---------------------------------------------------------------------
\* Headline attribution: _ticker_in_query.
\* A string is a sequence of one-character strings.
\* ---------------------------------------------------------------------

\* str.upper() on the characters the model uses.
UpperChar(c) ==
    CASE c = "a" -> "A"
      [] c = "p" -> "P"
      [] c = "l" -> "L"
      [] c = "e" -> "E"
      [] OTHER -> c

upper(str) == [i \in 1..Len(str) |-> UpperChar(str[i])]

\* The character class [A-Z0-9.] on the characters the model uses.
IsTokenChar(c) == c \in {"A", "P", "L", "E", "0", "."}

\* re.findall(r"[A-Z0-9.]+", str) as a set: a left to right scan in which
\* run is the match in progress; a match ends at the first character outside
\* the class or at the end of the string.
RECURSIVE findall(_, _)
findall(str, run) ==
    IF str = <<>>
    THEN IF run = <<>> THEN {} ELSE {run}
    ELSE IF IsTokenChar(Head(str))
         THEN findall(Tail(str), Append(run, Head(str)))
         ELSE (IF run = <<>> THEN {} ELSE {run}) \cup findall(Tail(str), <<>>)

\* str[i..j] = sub for some i, j: sub in str as Python's "in" on strings.
Contains(str, sub) ==
    \E i \in 1..(Len(str) + 1) :
        /\ i + Len(sub) - 1 <= Len(str)
        /\ SubSeq(str, i, i + Len(sub) - 1) = sub

\* A variant that matches the ticker anywhere in the tag.
ticker_in_query_substring(ticker, query) ==
    IF query = <<>> THEN FALSE ELSE Contains(upper(query), upper(ticker))

ticker_in_query(ticker, query) ==
    IF query = <<>>
    THEN FALSE
    ELSE upper(ticker) \in findall(upper(query), <<>>)

MaxQueryLen == 3

AppleAAPL == <<"A", "p", "p", "l", "e", " ", "A", "A", "P", "L">>

AAPL == <<"A", "A", "P", "L">>

QueryChars == {"A", "a", "P", " ", "-"}

AttrQueries == SeqsUpTo(QueryChars, MaxQueryLen) \cup {AppleAAPL}

AttrTickers == {<<"A">>, <<"A", "A">>, <<"A", "P">>, <<"A", "-", "A">>, AAPL}

AttributionInit ==
    /\ PricingIdle
    /\ ScoringIdle
    /\ FusionIdle
    /\ StoreIdle
    /\ IoIdle
    /\ hl_pc = "call"
    /\ hl_args \in [fn : {"_ticker_in_query"}, ticker : AttrTickers, query : AttrQueries]
    /\ hl_result = [fn |-> "none"]

TickerInQuery ==
    /\ hl_pc = "call"
    /\ hl_args.fn = "_ticker_in_query"
    /\ hl_pc' = "returned"
    /\ hl_result' = [fn |-> "_ticker_in_query",
                     value |-> ticker_in_query(hl_args.ticker, hl_args.query)]
    /\ UNCHANGED <<hl_args, pricing_vars, scoring_vars, fusion_vars, store_vars, io_vars>>

AttributionNext == TickerInQuery

SpecAttribution == AttributionInit /\ [][AttributionNext]_vars

Attributed == hl_pc = "returned" /\ hl_result.fn = "_ticker_in_query"

\* The ticker, upper-cased, fills positions i..j of the upper-cased tag, and
\* the characters before i and after j, where there are any, are not token
\* characters.
WholeTokenAt(t, q, i, j) ==
    /\ j - i + 1 = Len(t)
    /\ SubSeq(q, i, j) = t
    /\ \A k \in i..j : IsTokenChar(q[k])
    /\ i = 1 \/ ~IsTokenChar(q[i - 1])
    /\ j = Len(q) \/ ~IsTokenChar(q[j + 1])

IsWholeToken(ticker, query) ==
    \E i \in 1..Len(query) : \E j \in i..Len(query) :
        WholeTokenAt(upper(ticker), upper(query), i, j)

\* C15: a headline is attributed to a ticker exactly when the ticker is a
\* whole token of the headline's query tag (a maximal run of letters, digits
\* and dots, compared in upper case), never when it is only part of a longer
\* token; the tag "Apple AAPL" is attributed to AAPL and not to AA; a
\* headline with an empty tag is attributed to no ticker.
C15_WholeToken ==
    Attributed =>
        /\ hl_result.value = IsWholeToken(hl_args.ticker, hl_args.query)
        /\ hl_args.query = AppleAAPL => (hl_result.value <=> hl_args.ticker = AAPL)
        /\ hl_args.query = <<>> => ~hl_result.value

\* "Apple AAPL" was asked about AA, which is part of the token AAPL only.
C15_Witness ==
    /\ Attributed
    /\ hl_args.query = AppleAAPL
    /\ hl_args.ticker = <<"A", "A">>
    /\ ~hl_result.value

C15_WitnessAttributed ==
    /\ Attributed
    /\ hl_args.query = AppleAAPL
    /\ hl_args.ticker = AAPL
    /\ hl_result.value

\* ---------------------------------------------------------------------
\* news_sentiment.py: _score_finbert, _score_vader, score_headlines.
\* A score is an integer count of 1 / SCALE; no score here is NaN.
\* ---------------------------------------------------------------------

\* The titles of the model; none has surrounding blanks, so strip() and
\* [:512] leave each as it is. "garbled" is a title on which a classifier
\* raises.
Titles == {"", "rally", "surge", "crash", "slump", "garbled"}

Raises(title) == title = "garbled"

\* One result of the FinBERT pipeline: a label and a confidence.
FinbertResult(title) ==
    CASE title \in {"rally", "surge"} -> [label |-> "positive", score |-> 9000]
      [] title \in {"crash", "slump"} -> [label |-> "negative", score |-> 9000]
      [] OTHER -> [label |-> "neutral", score |-> 9000]

\* analyzer.polarity_scores(title)["compound"].
VaderCompound(title) ==
    CASE title = "rally" -> 4000
      [] title = "surge" -> 6000
      [] title \in {"crash", "slump"} -> -4000
      [] OTHER -> 0

DefaultBatchSize == 32

\* [j for j, t in enumerate(batch) if t], positions counted from 0.
RECURSIVE ValidIdx(_, _)
ValidIdx(batch, j) ==
    IF j >= Len(batch) THEN <<>>
    ELSE IF batch[j + 1] # "" THEN <<j>> \o ValidIdx(batch, j + 1)
    ELSE ValidIdx(batch, j + 1)

\* A variant that takes the k-th result for the k-th title of the batch.
HeadIdxDense(i, valid_idx, k) == i + k

\* head_idx = i + valid_idx[k]
HeadIdx(i, valid_idx, k) == i + valid_idx[k + 1]

\* for k, res in enumerate(results): the score of head_idx is set for the
\* labels positive and negative and left alone for any other label.
RECURSIVE ApplyResults(_, _, _, _, _)
ApplyResults(scores, i, valid_idx, results, k) ==
    IF k >= Len(results) \/ k >= Len(valid_idx) THEN scores
    ELSE LET head_idx == HeadIdx(i, valid_idx, k)
             res == results[k + 1]
             set == IF head_idx + 1 \notin DOMAIN scores THEN scores
                    ELSE IF res.label = "positive"
                         THEN [scores EXCEPT ![head_idx + 1] = res.score]
                    ELSE IF res.label = "negative"
                         THEN [scores EXCEPT ![head_idx + 1] = -res.score]
                    ELSE scores
         IN  ApplyResults(set, i, valid_idx, results, k + 1)

\* pipe(valid_titles) raises when it raises on one of the titles.
PipeRaises(valid_titles) == \E k \in DOMAIN valid_titles : Raises(valid_titles[k])

\* for i in range(0, len(titles), batch_size): one batch, then the next.
RECURSIVE ScoreBatches(_, _, _, _)
ScoreBatches(titles, batch_size, i, scores) ==
    IF i >= Len(titles) THEN scores
    ELSE LET batch == SubSeq(titles, i + 1, Min(i + batch_size, Len(titles)))
             valid_idx == ValidIdx(batch, 0)
             valid_titles == [k \in DOMAIN valid_idx |-> batch[valid_idx[k] + 1]]
             results == [k \in DOMAIN valid_titles |-> FinbertResult(valid_titles[k])]
             after == IF valid_idx = <<>> \/ PipeRaises(valid_titles)
                      THEN scores
                      ELSE ApplyResults(scores, i, valid_idx, results, 0)
         IN  ScoreBatches(titles, batch_size, i + batch_size, after)

\* _score_finbert: [] without the pipeline, else one score per headline.
score_finbert(headlines, batch_size, finbert) ==
    IF ~finbert THEN <<>>
    ELSE ScoreBatches([k \in DOMAIN headlines |-> headlines[k].title], batch_size, 0,
                      [k \in DOMAIN headlines |-> 0])

\* _score_vader: [] without the analyzer, else one score per headline, 0.0
\* for an empty title and for a title the analyzer raises on.
score_vader(headlines, vader) ==
    IF ~vader THEN <<>>
    ELSE [k \in DOMAIN headlines |->
            IF headlines[k].title = "" \/ Raises(headlines[k].title)
            THEN 0
            ELSE VaderCompound(headlines[k].title)]

RECURSIVE SumSeq(_)
SumSeq(xs) == IF xs = <<>> THEN 0 ELSE Head(xs) + SumSeq(Tail(xs))

\* round(std, 4) with std = sqrt(sum((x - mean) ** 2) / n), which is
\* sqrt(n * sum(x * x) - sum(x) ** 2) / n; the root is cut to a whole count.
StdOf(scores) ==
    LET n == Len(scores)
        total == SumSeq(scores)
        squares == SumSeq([k \in DOMAIN scores |-> scores[k] * scores[k]])
        spread == n * squares - total * total
    IN  IF spread > 0 THEN RoundDiv(ISqrt(spread, 0, 46340), n) ELSE 0

\* sorted(records, key=score, reverse=True): descending, records of equal
\* score in the order they had. rec goes behind every record of the sorted
\* list whose score is at least its own.
RECURSIVE InsertDesc(_, _)
InsertDesc(sorted, rec) ==
    IF sorted = <<>> THEN <<rec>>
    ELSE IF Head(sorted).score >= rec.score
         THEN <<Head(sorted)>> \o InsertDesc(Tail(sorted), rec)
         ELSE <<rec>> \o sorted

RECURSIVE SortDesc(_, _)
SortDesc(records, sorted) ==
    IF records = <<>> THEN sorted
    ELSE SortDesc(Tail(records), InsertDesc(sorted, Head(records)))

Reversed(xs) == [k \in DOMAIN xs |-> xs[Len(xs) + 1 - k]]

TopN == 3

\* xs[:TopN]
FirstN(xs) == SubSeq(xs, 1, Min(TopN, Len(xs)))

\* xs[-TopN:]
LastN(xs) == SubSeq(xs, Max(1, Len(xs) - TopN + 1), Len(xs))

EmptyResult ==
    [sentiment_mean |-> 0, sentiment_std |-> 0, sentiment_count |-> 0,
     headline_scores |-> <<>>, top_positive |-> <<>>, top_negative |-> <<>>]

\* The result for no headlines, the warning left out.
NoHeadlinesSilent == EmptyResult

\* if not headlines: result["warning"] = ...; return result
NoHeadlines == EmptyResult @@ [warning |-> "No headlines provided"]

\* if not scores: the warning and the number of headlines.
NoScores(headlines) ==
    [EmptyResult EXCEPT !.sentiment_count = Len(headlines)]
        @@ [warning |-> "Could not compute sentiment"]

\* The aggregate of a non-empty list of scores.
Aggregate(headlines, scores) ==
    LET n == Len(scores)
        headline_scores ==
            [k \in 1..Min(Len(headlines), n) |->
                [title |-> headlines[k].title, score |-> scores[k]]]
        sorted_by_score == SortDesc(headline_scores, <<>>)
    IN  [sentiment_mean |-> RoundDiv(SumSeq(scores), n),
         sentiment_std |-> StdOf(scores),
         sentiment_count |-> n,
         headline_scores |-> headline_scores,
         top_positive |-> FirstN(sorted_by_score),
         top_negative |-> Reversed(LastN(sorted_by_score))]

\* The scores score_headlines works with: VADER when asked for, else
\* FinBERT, and VADER in its place when FinBERT gives [] under "auto".
ChosenScores(headlines, model_preference, finbert, vader) ==
    IF model_preference = "vader"
    THEN score_vader(headlines, vader)
    ELSE LET scores == score_finbert(headlines, DefaultBatchSize, finbert)
         IN  IF scores = <<>> /\ model_preference = "auto"
             THEN score_vader(headlines, vader)
             ELSE scores

score_headlines(headlines, model_preference, finbert, vader) ==
    IF headlines = <<>>
    THEN NoHeadlines
    ELSE LET scores == ChosenScores(headlines, model_preference, finbert, vader)
         IN  IF scores = <<>> THEN NoScores(headlines) ELSE Aggregate(headlines, scores)

MaxHeadlines == 4

HeadlineLists == SeqsUpTo([title : Titles], MaxHeadlines)

ModelPreferences == {"auto", "vader", "finbert"}

BatchSizes == {1, 2, DefaultBatchSize}

HeadlineArgs ==
    [fn : {"score_headlines"}, headlines : HeadlineLists,
     model_preference : ModelPreferences, finbert : BOOLEAN, vader : BOOLEAN]
    \cup
    [fn : {"_score_finbert"}, headlines : HeadlineLists,
     batch_size : BatchSizes, finbert : BOOLEAN]

HeadlinesInit ==
    /\ PricingIdle
    /\ ScoringIdle
    /\ FusionIdle
    /\ StoreIdle
    /\ IoIdle
    /\ hl_pc = "call"
    /\ hl_args \in HeadlineArgs
    /\ hl_result = [fn |-> "none"]

ScoreHeadlines ==
    /\ hl_pc = "call"
    /\ hl_args.fn = "score_headlines"
    /\ hl_pc' = "returned"
    /\ hl_result' = [fn |-> "score_headlines",
                     value |-> score_headlines(hl_args.headlines, hl_args.model_preference,
                                               hl_args.finbert, hl_args.vader)]
    /\ UNCHANGED <<hl_args, pricing_vars, scoring_vars, fusion_vars, store_vars, io_vars>>

ScoreFinbert ==
    /\ hl_pc = "call"
    /\ hl_args.fn = "_score_finbert"
    /\ hl_pc' = "returned"
    /\ hl_result' = [fn |-> "_score_finbert",
                     value |-> score_finbert(hl_args.headlines, hl_args.batch_size,
                                             hl_args.finbert)]
    /\ UNCHANGED <<hl_args, pricing_vars, scoring_vars, fusion_vars, store_vars, io_vars>>

HeadlinesNext == ScoreHeadlines \/ ScoreFinbert

SpecHeadlines == HeadlinesInit /\ [][HeadlinesNext]_vars

HeadlinesScored == hl_pc = "returned" /\ hl_result.fn = "score_headlines"

FinbertScored == hl_pc = "returned" /\ hl_result.fn = "_score_finbert"

HasWarning == "warning" \in DOMAIN hl_result.value

\* C17: score_headlines on no headlines returns mean 0, std 0, count 0 and
\* the 'warning' entry; a result that aggregates at least one scored headline
\* (it has headline_scores) carries no 'warning' entry, and a result with
\* the entry aggregates nothing.
C17_NoDataSignal ==
    HeadlinesScored =>
        /\ hl_args.headlines = <<>> =>
              /\ hl_result.value.sentiment_mean = 0
              /\ hl_result.value.sentiment_std = 0
              /\ hl_result.value.sentiment_count = 0
              /\ HasWarning
        /\ hl_result.value.headline_scores # <<>> => ~HasWarning
        /\ HasWarning => hl_result.value.headline_scores = <<>>

\* No headlines were given.
C17_Witness ==
    /\ HeadlinesScored
    /\ hl_args.headlines = <<>>
    /\ HasWarning

\* A genuine aggregate of zero sentiment: one up, one down, no warning.
C17_WitnessGenuineZero ==
    /\ HeadlinesScored
    /\ hl_result.value.sentiment_count = 2
    /\ hl_result.value.sentiment_mean = 0
    /\ hl_result.value.sentiment_std > 0
    /\ ~HasWarning

\* The number of records listed before record i when the highest score comes
\* first and records of equal score keep their input order.
RankPositive(hs, i) ==
    Cardinality({j \in DOMAIN hs :
        hs[j].score > hs[i].score \/ (hs[j].score = hs[i].score /\ j < i)})

\* The same with the lowest score first.
RankNegative(hs, i) ==
    Cardinality({j \in DOMAIN hs :
        hs[j].score < hs[i].score \/ (hs[j].score = hs[i].score /\ j < i)})

StableTop(hs, Rank(_, _)) ==
    [k \in 1..Min(TopN, Len(hs)) |-> hs[CHOOSE i \in DOMAIN hs : Rank(hs, i) = k - 1]]

\* top_positive is the first TopN records by score, highest first, ties in
\* input order.
TopPositiveStable ==
    HeadlinesScored =>
        hl_result.value.top_positive =
            StableTop(hl_result.value.headline_scores, RankPositive)

\* C18: top_positive and top_negative are the three most positive and the
\* three most negative records ordered by score, and in both lists a record
\* comes before (and is chosen before) every record of equal score that is
\* later in the input.
C18_TopListsStable ==
    HeadlinesScored =>
        /\ hl_result.value.top_positive =
              StableTop(hl_result.value.headline_scores, RankPositive)
        /\ hl_result.value.top_negative =
              StableTop(hl_result.value.headline_scores, RankNegative)

\* What FinBERT says of one title: the confidence, signed by the label, and
\* 0.0 for an empty title, which is never sent to it.
FinbertScore(title) ==
    IF title = "" THEN 0
    ELSE IF FinbertResult(title).label = "positive" THEN FinbertResult(title).score
    ELSE IF FinbertResult(title).label = "negative" THEN -FinbertResult(title).score
    ELSE 0

\* What VADER says of one title.
VaderScore(title) == IF title = "" \/ Raises(title) THEN 0 ELSE VaderCompound(title)

\* The headlines that share a batch with headline i.
BatchOf(headlines, batch_size, i) ==
    {j \in DOMAIN headlines : (j - 1) \div batch_size = (i - 1) \div batch_size}

BatchRaises(headlines, batch_size, i) ==
    \E j \in BatchOf(headlines, batch_size, i) : Raises(headlines[j].title)

\* score_headlines took the VADER path.
OnVaderPath ==
    \/ hl_args.model_preference = "vader"
    \/ hl_args.model_preference = "auto" /\ ~hl_args.finbert

\* C19: a classification returns one score per headline, in input order.
\* _score_finbert, for every batch size, returns as many scores as headlines
\* and score i is FinBERT's score of title i (0.0 for an empty title) when
\* no call of the batch fails; headline_scores of score_headlines has one
\* record per headline, record i with the title of headline i and with the
\* score of that title on the path taken, FinBERT or VADER.
C19_OneScorePerHeadlineInOrder ==
    /\ FinbertScored /\ hl_args.finbert =>
          /\ Len(hl_result.value) = Len(hl_args.headlines)
          /\ \A i \in DOMAIN hl_args.headlines :
                ~BatchRaises(hl_args.headlines, hl_args.batch_size, i) =>
                    hl_result.value[i] = FinbertScore(hl_args.headlines[i].title)
    /\ HeadlinesScored /\ ~HasWarning =>
          /\ Len(hl_result.value.headline_scores) = Len(hl_args.headlines)
          /\ \A i \in DOMAIN hl_args.headlines :
                /\ hl_result.value.headline_scores[i].title = hl_args.headlines[i].title
                /\ OnVaderPath =>
                      hl_result.value.headline_scores[i].score =
                          VaderScore(hl_args.headlines[i].title)
                /\ /\ ~OnVaderPath
                   /\ ~BatchRaises(hl_args.headlines, DefaultBatchSize, i)
                   => hl_result.value.headline_scores[i].score =
                          FinbertScore(hl_args.headlines[i].title)

\* Two batches of two, an empty title in front of a scored one in each.
C19_Witness ==
    /\ FinbertScored
    /\ hl_args.batch_size = 2
    /\ hl_args.headlines =
          <<[title |-> ""], [title |-> "rally"], [title |-> ""], [title |-> "crash"]>>
    /\ hl_result.value = <<0, 9000, 0, -9000>>

\* The VADER path with an empty title between two scored ones.
C19_WitnessVader ==
    /\ HeadlinesScored
    /\ OnVaderPath
    /\ hl_args.headlines = <<[title |-> "surge"], [title |-> ""], [title |-> "crash"]>>
    /\ hl_result.value.headline_scores =
          <<[title |-> "surge", score |-> 6000], [title |-> "", score |-> 0],
            [title |-> "crash", score |-> -4000]>>

\* C20: a failure on one headline costs that headline's score only: every
\* headline the classifier does not fail on, those of the same batch
\* included, has the classifier's score, and the failing one has 0.0.
C20_FailuresIsolated ==
    /\ FinbertScored /\ hl_args.finbert =>
          \A i \in DOMAIN hl_args.headlines :
              hl_result.value[i] =
                  IF Raises(hl_args.headlines[i].title)
                  THEN 0
                  ELSE FinbertScore(hl_args.headlines[i].title)
    /\ HeadlinesScored /\ ~HasWarning =>
          \A i \in DOMAIN hl_args.headlines :
              hl_result.value.headline_scores[i].score =
                  IF Raises(hl_args.headlines[i].title)
                  THEN 0
                  ELSE IF OnVaderPath
                       THEN VaderScore(hl_args.headlines[i].title)
                       ELSE FinbertScore(hl_args.headlines[i].title)

\* On the VADER path a failure costs the failing headline only.
VaderFailuresIsolated ==
    HeadlinesScored /\ ~HasWarning /\ OnVaderPath =>
        \A i \in DOMAIN hl_args.headlines :
            hl_result.value.headline_scores[i].score =
                IF Raises(hl_args.headlines[i].title)
                THEN 0
                ELSE VaderScore(hl_args.headlines[i].title)

\* ---------------------------------------------------------------------
\* pipeline_multi_ticker.py: the headline sentiment of each ticker.
\* ---------------------------------------------------------------------

\* np.mean of a non-empty list of scores, at the resolution of the scores.
MeanOf(scores) == RoundDiv(SumSeq(scores), Len(scores))

\* The scores of the headlines whose query tag holds the ticker, in order.
RECURSIVE AttributedScores(_, _, _)
AttributedScores(headlines, headline_scores, ticker) ==
    IF headlines = <<>> \/ headline_scores = <<>> THEN <<>>
    ELSE (IF ticker_in_query(ticker, Head(headlines).query)
          THEN <<Head(headline_scores).score>>
          ELSE <<>>)
         \o AttributedScores(Tail(headlines), Tail(headline_scores), ticker)

\* ticker_sentiment_map: filled only when there is one score per headline,
\* and then for the tickers with at least one attributed headline.
ticker_sentiment_map(headlines, headline_scores, tickers) ==
    LET built == headline_scores # <<>> /\ Len(headline_scores) = Len(headlines)
        with == {t \in tickers :
                    built /\ AttributedScores(headlines, headline_scores, t) # <<>>}
    IN  [t \in with |-> MeanOf(AttributedScores(headlines, headline_scores, t))]

\* A variant that hands every ticker the global mean.
map_get_global(map, ticker, global_sentiment) == global_sentiment

\* ticker_sentiment_map.get(ticker, global_sentiment)
map_get(map, ticker, global_sentiment) ==
    IF ticker \in DOMAIN map THEN map[ticker] ELSE global_sentiment

MaxTagged == 3

AA == <<"A", "A">>

TagTickers == {AA, AAPL}

TagQueries == {<<>>, AA, AppleAAPL, AA \o <<" ">> \o AAPL}

TaggedHeadlines == SeqsUpTo([title : {"rally", "crash"}, query : TagQueries], MaxTagged)

TickerSentimentInit ==
    /\ PricingIdle
    /\ ScoringIdle
    /\ FusionIdle
    /\ StoreIdle
    /\ IoIdle
    /\ hl_pc = "call"
    /\ hl_args \in [fn : {"main"}, headlines : TaggedHeadlines \ {<<>>},
                    finbert : BOOLEAN, vader : BOOLEAN]
    /\ hl_result = [fn |-> "none"]

\* main: the headlines are scored once and the map is built.
BuildSentimentMap ==
    /\ hl_pc = "call"
    /\ hl_args.fn = "main"
    /\ LET sentiment_result ==
               score_headlines(hl_args.headlines, "auto", hl_args.finbert, hl_args.vader)
       IN  hl_result' =
               [fn |-> "main",
                global_sentiment |-> sentiment_result.sentiment_mean,
                headline_scores |-> sentiment_result.headline_scores,
                ticker_sentiment_map |->
                    ticker_sentiment_map(hl_args.headlines,
                                         sentiment_result.headline_scores, TagTickers),
                sentiment_mean |-> <<>>]
    /\ hl_pc' = "mapped"
    /\ UNCHANGED <<hl_args, pricing_vars, scoring_vars, fusion_vars, store_vars, io_vars>>

\* _process_ticker, in the order the pool runs the tickers: the headline
\* sentiment the ticker starts from.
TickerSentiment(ticker) ==
    /\ hl_pc = "mapped"
    /\ ticker \notin DOMAIN hl_result.sentiment_mean
    /\ hl_result' =
           [hl_result EXCEPT !.sentiment_mean =
               [t \in DOMAIN hl_result.sentiment_mean \cup {ticker} |->
                   IF t = ticker
                   THEN map_get(hl_result.ticker_sentiment_map, ticker,
                                hl_result.global_sentiment)
                   ELSE hl_result.sentiment_mean[t]]]
    /\ UNCHANGED <<hl_pc, hl_args, pricing_vars, scoring_vars, fusion_vars, store_vars, io_vars>>

TickerSentimentNext == BuildSentimentMap \/ \E ticker \in TagTickers : TickerSentiment(ticker)

SpecTickerSentiment == TickerSentimentInit /\ [][TickerSentimentNext]_vars

\* The headlines of a ticker: those whose tag holds it as a whole token.
HeadlinesOf(ticker) ==
    {i \in DOMAIN hl_args.headlines : IsWholeToken(ticker, hl_args.headlines[i].query)}

RECURSIVE SumScores(_, _)
SumScores(headline_scores, idx) ==
    IF idx = {} THEN 0
    ELSE LET i == CHOOSE j \in idx : TRUE
         IN  headline_scores[i].score + SumScores(headline_scores, idx \ {i})

Processed(ticker) ==
    /\ hl_pc = "mapped"
    /\ hl_result.headline_scores # <<>>
    /\ ticker \in DOMAIN hl_result.sentiment_mean

\* C16: the headline sentiment a processed ticker starts from is the mean of
\* the scores of the headlines attributed to it when there is at least one,
\* and the global mean score_headlines reports over all headlines when there
\* is none.
C16_TickerMeanOrGlobal ==
    \A ticker \in TagTickers :
        Processed(ticker) =>
            hl_result.sentiment_mean[ticker] =
                IF HeadlinesOf(ticker) # {}
                THEN RoundDiv(SumScores(hl_result.headline_scores, HeadlinesOf(ticker)),
                              Cardinality(HeadlinesOf(ticker)))
                ELSE RoundDiv(SumScores(hl_result.headline_scores,
                                        DOMAIN hl_result.headline_scores),
                              Len(hl_result.headline_scores))

\* AA has one headline of its own and AAPL none: AA takes the score of its
\* headline and AAPL the global mean, which differs.
C16_Witness ==
    /\ Processed(AA)
    /\ Processed(AAPL)
    /\ Cardinality(HeadlinesOf(AA)) = 1
    /\ HeadlinesOf(AAPL) = {}
    /\ Len(hl_args.headlines) = 3
    /\ hl_result.sentiment_mean[AA] # hl_result.global_sentiment
    /\ hl_result.sentiment_mean[AAPL] = hl_result.global_sentiment
    /\ hl_result.global_sentiment # 0

\* ---------------------------------------------------------------------
\* market_data.py: _retry_on_rate_limit and get_spot.
\* ---------------------------------------------------------------------

MaxRetries == 3

InitialBackoff == 2

\* What one invocation of func ends with: a returned close price, the NaN
\* of an empty history, or an exception with its type name and message.
FuncOutcomes ==
    {[raised |-> FALSE, val |-> Fl(100 * SCALE)],
     [raised |-> FALSE, val |-> Fl(250 * SCALE)],
     [raised |-> FALSE, val |-> NaN],
     [raised |-> TRUE, type |-> "YFRateLimitError", msg |-> "Too Many Requests"],
     [raised |-> TRUE, type |-> "HTTPError", msg |-> "Rate limit exceeded"],
     [raised |-> TRUE, type |-> "KeyError", msg |-> "Close"]}

\* A variant that takes every exception for a rate-limit error.
IsRateLimitAny(e) == TRUE

\* "YFRateLimitError" in type(e).__name__ or "rate limit" in str(e).lower(),
\* on the exceptions of the model.
IsRateLimit(e) ==
    \/ e.type = "YFRateLimitError"
    \/ e.msg \in {"Rate limit exceeded", "rate limit"}

\* A variant that keeps the backoff as it is.
next_backoff_flat(backoff) == backoff

\* backoff *= 2
next_backoff(backoff) == 2 * backoff

RetryCallers == {"_retry_on_rate_limit", "get_spot"}

RetryInit ==
    /\ PricingIdle
    /\ ScoringIdle
    /\ FusionIdle
    /\ StoreIdle
    /\ HeadlineIdle
    /\ CacheIdle
    /\ PoolIdle
    /\ WebIdle
    /\ rt_pc = "try"
    /\ rt_attempt = 0
    /\ rt_backoff = InitialBackoff
    /\ rt_log = <<>>
    /\ rt_result \in [ret : {"none"}, caller : RetryCallers]

\* Lines 29-40: one invocation of func inside the try; a value is returned,
\* an exception is raised again unless it is a rate-limit error with an
\* attempt left, and then the sleep is next.
Invoke(outcome) ==
    /\ rt_pc = "try"
    /\ rt_log' = Append(rt_log, [ev |-> "call", attempt |-> rt_attempt, outcome |-> outcome])
    /\ IF ~outcome.raised
       THEN /\ rt_pc' = "returned"
            /\ rt_result' = [rt_result EXCEPT !.ret = "value"] @@ [val |-> outcome.val]
       ELSE IF IsRateLimit(outcome) /\ rt_attempt < MaxRetries - 1
       THEN /\ rt_pc' = "sleep"
            /\ rt_result' = rt_result
       ELSE /\ rt_pc' = "raised"
            /\ rt_result' = [rt_result EXCEPT !.ret = "raise"]
                               @@ [error |-> outcome, attempt |-> rt_attempt]
    /\ UNCHANGED <<rt_attempt, rt_backoff, pricing_vars, scoring_vars, fusion_vars,
                   store_vars, headline_vars, cache_vars, pool_vars, web_vars>>

\* Lines 35-36 and the next turn of the loop; a loop that ran out of
\* attempts would fall off the end of the function, which returns None.
Sleep ==
    /\ rt_pc = "sleep"
    /\ rt_log' = Append(rt_log, [ev |-> "sleep", secs |-> rt_backoff])
    /\ rt_backoff' = next_backoff(rt_backoff)
    /\ rt_attempt' = rt_attempt + 1
    /\ IF rt_attempt + 1 < MaxRetries
       THEN /\ rt_pc' = "try"
            /\ rt_result' = rt_result
       ELSE /\ rt_pc' = "returned"
            /\ rt_result' = [rt_result EXCEPT !.ret = "None"]
    /\ UNCHANGED <<pricing_vars, scoring_vars, fusion_vars, store_vars, headline_vars,
                   cache_vars, pool_vars, web_vars>>

\* get_spot, lines 57-61: the value of _retry_on_rate_limit, and NaN for
\* an exception that left it.
GetSpotReturn ==
    /\ rt_result.caller = "get_spot"
    /\ rt_pc \in {"returned", "raised"}
    /\ rt_pc' = "spot"
    /\ rt_result' = [ret |-> "value", caller |-> "get_spot",
                     val |-> IF rt_pc = "raised" THEN NaN ELSE rt_result.val]
    /\ UNCHANGED <<rt_attempt, rt_backoff, rt_log, pricing_vars, scoring_vars,
                   fusion_vars, store_vars, headline_vars, cache_vars, pool_vars, web_vars>>

RetryNext == (\E outcome \in FuncOutcomes : Invoke(outcome)) \/ Sleep \/ GetSpotReturn

SpecRetry == RetryInit /\ [][RetryNext]_vars

\* The invocations of func so far and the seconds slept so far, in order.
Calls == SelectSeq(rt_log, LAMBDA e : e.ev = "call")

SleptSecs == LET sl == SelectSeq(rt_log, LAMBDA e : e.ev = "sleep")
             IN  [k \in DOMAIN sl |-> sl[k].secs]

\* The rate-limit errors among the outcomes: yfinance's own exception, and
\* an HTTP error that says so.
RateLimitErrors ==
    {o \in FuncOutcomes : o.raised /\ o.type \in {"YFRateLimitError", "HTTPError"}}

RateLimited(e) == e.ev = "call" /\ e.outcome \in RateLimitErrors

\* _retry_on_rate_limit has ended, by a return or by an exception.
RetryEnded == rt_pc \in {"returned", "raised"}

\* C24: func is invoked at most three times, an invocation after the first
\* follows a rate-limit error and a sleep, of 2 s before the second and 4 s
\* before the third; a returned value is the value the last invocation
\* returned; after three rate-limit errors the third one is raised, and None
\* is never returned.
C24_RetryBackoff ==
    /\ Len(Calls) <= 3
    /\ \A k \in DOMAIN rt_log :
          (rt_log[k].ev = "call" /\ k > 1) =>
              /\ k > 2
              /\ rt_log[k - 1].ev = "sleep"
              /\ RateLimited(rt_log[k - 2])
    /\ SleptSecs \in {<<>>, <<2>>, <<2, 4>>}
    /\ rt_pc = "try" => Len(SleptSecs) = Len(Calls)
    /\ RetryEnded =>
          /\ Len(SleptSecs) = Len(Calls) - 1
          /\ rt_result.ret # "None"
          /\ rt_pc = "returned" =>
                /\ ~rt_log[Len(rt_log)].outcome.raised
                /\ rt_result.val = rt_log[Len(rt_log)].outcome.val
          /\ (Len(Calls) = 3 /\ \A k \in 1..3 : RateLimited(Calls[k])) =>
                /\ rt_pc = "raised"
                /\ rt_result.error = Calls[3].outcome

\* Three rate-limit errors: slept 2 s and 4 s, and the third error raised.
C24_Witness ==
    /\ rt_pc = "raised"
    /\ Len(Calls) = 3
    /\ SleptSecs = <<2, 4>>
    /\ \A k \in 1..3 : RateLimited(Calls[k])
    /\ rt_result.error = Calls[3].outcome

\* A value returned by the third invocation, after two rate-limit errors.
C24_WitnessThirdReturns ==
    /\ rt_pc = "returned"
    /\ Len(Calls) = 3
    /\ rt_result.val = Fl(100 * SCALE)

\* C25: an exception that is not a rate-limit error ends
\* _retry_on_rate_limit at once, on any attempt: it is the exception raised,
\* nothing is slept and func is not invoked after it; get_spot returns NaN
\* for it and for the error of exhausted retries, and never raises.
C25_OtherErrorsPropagate ==
    /\ \A k \in DOMAIN rt_log :
          ( /\ rt_log[k].ev = "call"
            /\ rt_log[k].outcome.raised
            /\ ~RateLimited(rt_log[k]) ) =>
              /\ k = Len(rt_log)
              /\ rt_pc \in {"raised", "spot"}
              /\ rt_pc = "raised" => rt_result.error = rt_log[k].outcome
    /\ rt_pc = "spot" =>
          /\ rt_result.ret = "value"
          /\ rt_log[Len(rt_log)].outcome.raised => IsNaN(rt_result.val)
          /\ ~rt_log[Len(rt_log)].outcome.raised =>
                rt_result.val = rt_log[Len(rt_log)].outcome.val

\* get_spot returned NaN for a KeyError on the second attempt.
C25_Witness ==
    /\ rt_pc = "spot"
    /\ Len(rt_log) = 3
    /\ rt_log[3].outcome.raised
    /\ rt_log[3].outcome.type = "KeyError"
    /\ IsNaN(rt_result.val)

\* get_spot returned NaN after three rate-limit errors.
C25_WitnessExhausted ==
    /\ rt_pc = "spot"
    /\ Len(Calls) = 3
    /\ RateLimited(Calls[3])
    /\ IsNaN(rt_result.val)

\* ---------------------------------------------------------------------
\* newsapi_client.py: the CSV cache in front of the NewsAPI.
\* ---------------------------------------------------------------------

\* n of fetch_headlines, its default.
DefaultN == 100

\* cache_max_age_hours, its default.
CacheMaxAgeHours == 24

\* The headlines an article list turns into: with a url, with a title only,
\* and with neither (url, uri and title all missing from the article).
Keyed == [title |-> "Fed cuts rates", url |-> "https://a"]

TitleOnly == [title |-> "Stocks rally", url |-> ""]

Keyless == [title |-> "", url |-> ""]

\* What er.execQuery gives: article lists, an "error" reply, an exception.
ApiReplies ==
    {[kind |-> "articles", out |-> <<>>],
     [kind |-> "articles", out |-> <<Keyed>>],
     [kind |-> "articles", out |-> <<Keyless>>],
     [kind |-> "articles", out |-> <<TitleOnly, Keyed>>],
     [kind |-> "error", out |-> <<>>],
     [kind |-> "raise", out |-> <<>>]}

NewsQueries == {"SPY OR S&P 500", "AAPL"}

\* row.get("query") == query and fetched_at not before the cutoff.
FreshRow(row, query, now, max_age_hours) ==
    row.query = query /\ row.fetched_at >= now - max_age_hours

\* Lines 181-188: from the last row to the first, a row is kept when its
\* url (or, without url, its title) is not empty and not seen yet; the kept
\* rows are returned in file order.
RECURSIVE DedupeFromEnd(_, _)
DedupeFromEnd(rows, seen) ==
    IF rows = <<>> THEN <<>>
    ELSE LET r == rows[Len(rows)]
             u == IF r.url # "" THEN r.url ELSE r.title
             rest == SubSeq(rows, 1, Len(rows) - 1)
         IN  IF u # "" /\ u \notin seen
             THEN Append(DedupeFromEnd(rest, seen \cup {u}), r)
             ELSE DedupeFromEnd(rest, seen)

\* load_headlines_from_csv: None without the file or without a fresh row of
\* the query, else the first n of the deduplicated rows.
load_headlines_from_csv(exists, rows, query, n, now, max_age_hours) ==
    LET fresh == SelectSeq(rows, LAMBDA row : FreshRow(row, query, now, max_age_hours))
        found == [k \in DOMAIN fresh |-> [title |-> fresh[k].title, url |-> fresh[k].url]]
        unique == DedupeFromEnd(found, {})
    IN  IF ~exists \/ fresh = <<>>
        THEN [none |-> TRUE, rows |-> <<>>]
        ELSE [none |-> FALSE, rows |-> SubSeq(unique, 1, Min(n, Len(unique)))]

\* save_headlines_to_csv: nothing for an empty list; else one row per
\* headline with the query and the time, appended; nothing on an I/O error.
save_headlines_to_csv(rows, headlines, query, now, io_ok) ==
    IF headlines = <<>> \/ ~io_ok
    THEN rows
    ELSE rows \o [k \in DOMAIN headlines |->
                    [query |-> query, title |-> headlines[k].title,
                     url |-> headlines[k].url, fetched_at |-> now]]

\* Lines 243-271: the articles up to n, one per url.
RECURSIVE ApiHeadlines(_, _, _)
ApiHeadlines(articles, n, seen) ==
    IF articles = <<>> \/ n <= 0 THEN <<>>
    ELSE LET a == Head(articles)
         IN  IF a.url # "" /\ a.url \in seen
             THEN ApiHeadlines(Tail(articles), n, seen)
             ELSE <<a>> \o ApiHeadlines(Tail(articles), n - 1,
                                        IF a.url # "" THEN seen \cup {a.url} ELSE seen)

\* fetch_headlines as one record: what it returns, whether it called the
\* API, and the rows of the cache after it.
fetch_headlines(exists, rows, query, api_key, n, use_cache, max_age_hours, now, reply, io_ok) ==
    LET cached == load_headlines_from_csv(exists, rows, query, n, now, max_age_hours)
        out == ApiHeadlines(reply.out, n, {})
    IN  IF use_cache /\ ~cached.none /\ cached.rows # <<>>
        THEN [result |-> cached.rows, from |-> "cache", api |-> FALSE, rows |-> rows]
        ELSE IF api_key = ""
        THEN [result |-> <<>>, from |-> "none", api |-> FALSE, rows |-> rows]
        ELSE IF reply.kind # "articles"
        THEN [result |-> <<>>, from |-> "none", api |-> TRUE, rows |-> rows]
        ELSE [result |-> out, from |-> "api", api |-> TRUE,
              rows |-> save_headlines_to_csv(rows, out, query, now, io_ok)]

MaxFetches == 2

NewsTick == 12

MaxNewsClock == 36

CacheInit ==
    /\ PricingIdle
    /\ ScoringIdle
    /\ FusionIdle
    /\ StoreIdle
    /\ HeadlineIdle
    /\ RetryIdle
    /\ PoolIdle
    /\ WebIdle
    /\ CacheIdle

\* One call fetch_headlines(query, api_key, use_cache=...), with what the
\* API and the file system do during it.
FetchHeadlines(query, api_key, use_cache, reply, io_ok) ==
    /\ Len(fetch_log) < MaxFetches
    /\ LET f == fetch_headlines(csv_exists, csv_rows, query, api_key, DefaultN, use_cache,
                                CacheMaxAgeHours, news_now, reply, io_ok)
       IN  /\ csv_rows' = f.rows
           /\ csv_exists' = (csv_exists \/ f.rows # csv_rows)
           /\ fetch_log' = Append(fetch_log,
                 [query |-> query, use_cache |-> use_cache, at |-> news_now,
                  result |-> f.result, from |-> f.from, api |-> f.api,
                  wrote |-> Len(f.rows) - Len(csv_rows),
                  rows_before |-> csv_rows])
    /\ UNCHANGED <<news_now, pricing_vars, scoring_vars, fusion_vars, store_vars,
                   headline_vars, retry_vars, pool_vars, web_vars>>

\* Time passes between two calls.
NewsClock ==
    /\ news_now + NewsTick <= MaxNewsClock
    /\ Len(fetch_log) < MaxFetches
    /\ news_now' = news_now + NewsTick
    /\ UNCHANGED <<csv_exists, csv_rows, fetch_log, pricing_vars, scoring_vars,
                   fusion_vars, store_vars, headline_vars, retry_vars, pool_vars, web_vars>>

CacheNext ==
    \/ \E query \in NewsQueries, api_key \in {"", "key"}, use_cache \in BOOLEAN,
          reply \in ApiReplies, io_ok \in BOOLEAN :
            FetchHeadlines(query, api_key, use_cache, reply, io_ok)
    \/ NewsClock

SpecCache == CacheInit /\ [][CacheNext]_vars

\* Call i went to the API for the query, got headlines and saved them.
SavedFetch(i) ==
    /\ fetch_log[i].from = "api"
    /\ fetch_log[i].result # <<>>
    /\ fetch_log[i].wrote = Len(fetch_log[i].result)

\* The cache held a row of the query, no older than the maximum age, when
\* call j started.
HadFreshRow(j) ==
    \E k \in DOMAIN fetch_log[j].rows_before :
        /\ fetch_log[j].rows_before[k].query = fetch_log[j].query
        /\ fetch_log[j].at - fetch_log[j].rows_before[k].fetched_at <= CacheMaxAgeHours

\* C26: once a fetch of a query has called the API, got at least one
\* headline and saved it, every later fetch of that query with use_cache
\* within the maximum age is served from the cache: it returns cached
\* headlines, calls no API and writes nothing; and the API is called only
\* when the cache has no fresh row of exactly that query or use_cache is off.
C26_CacheFirst ==
    /\ \A i, j \in DOMAIN fetch_log :
          ( /\ i < j
            /\ SavedFetch(i)
            /\ fetch_log[j].query = fetch_log[i].query
            /\ fetch_log[j].use_cache
            /\ fetch_log[j].at - fetch_log[i].at <= CacheMaxAgeHours ) =>
              /\ fetch_log[j].from = "cache"
              /\ fetch_log[j].result # <<>>
              /\ ~fetch_log[j].api
              /\ fetch_log[j].wrote = 0
    /\ \A j \in DOMAIN fetch_log :
          fetch_log[j].api => (~fetch_log[j].use_cache \/ ~HadFreshRow(j))

\* The same for fetches whose saved headlines include one with a url or a
\* title.
CacheFirstKeyed ==
    \A i, j \in DOMAIN fetch_log :
        ( /\ i < j
          /\ SavedFetch(i)
          /\ \E k \in DOMAIN fetch_log[i].result : fetch_log[i].result[k] # Keyless
          /\ fetch_log[j].query = fetch_log[i].query
          /\ fetch_log[j].use_cache
          /\ fetch_log[j].at - fetch_log[i].at <= CacheMaxAgeHours ) =>
            /\ fetch_log[j].from = "cache"
            /\ fetch_log[j].result # <<>>
            /\ ~fetch_log[j].api
            /\ fetch_log[j].wrote = 0

\* ---------------------------------------------------------------------
\* pipeline_multi_ticker.py: _process_ticker over the tickers, in sequence
\* or on a pool of workers.
\* ---------------------------------------------------------------------

MaxTickers == 3

MaxWorkers == 3

TickerList == <<"AAPL", "MSFT", "NVDA", "TSLA", "AMZN">>

\* What the market gives for one ticker: a chain with two contracts, no
\* spot price, or an exception out of get_options_chain or compute_scores.
MarketKinds == {"chain", "no_spot", "raises"}

\* all_rows = fut.result(), losing what was collected before.
extend_replace(all_rows, rows) == rows

\* all_rows.extend(rows)
extend(all_rows, rows) == all_rows \o rows

\* _process_ticker: the rows of the top contracts of the ticker; [] when
\* the spot is missing and when an exception is caught by line 284.
process_ticker(ticker, kind) ==
    IF kind = "chain"
    THEN <<[ticker |-> ticker, contractSymbol |-> "C100"],
           [ticker |-> ticker, contractSymbol |-> "P100"]>>
    ELSE <<>>

PoolArgs ==
    {[tickers |-> SubSeq(TickerList, 1, n), market |-> m, parallel |-> w] :
        n \in 0..MaxTickers, m \in SeqsUpTo(MarketKinds, MaxTickers), w \in 0..MaxWorkers}

PoolInit ==
    /\ PricingIdle
    /\ ScoringIdle
    /\ FusionIdle
    /\ StoreIdle
    /\ HeadlineIdle
    /\ RetryIdle
    /\ CacheIdle
    /\ WebIdle
    /\ mt_args \in {a \in PoolArgs : Len(a.market) = Len(a.tickers)}
    /\ mt_pc = "run"
    /\ mt_task = [i \in DOMAIN mt_args.tickers |-> "pending"]
    /\ mt_started = [i \in DOMAIN mt_args.tickers |-> 0]
    /\ mt_all_rows = <<>>
    /\ mt_written = <<>>

Running == {i \in DOMAIN mt_task : mt_task[i] = "running"}

\* Sequential mode, lines 297-298: the next ticker of the list is processed
\* and its rows are added.
ProcessNext(i) ==
    /\ mt_pc = "run"
    /\ mt_args.parallel = 0
    /\ mt_task[i] = "pending"
    /\ \A j \in 1..(i - 1) : mt_task[j] = "collected"
    /\ mt_task' = [mt_task EXCEPT ![i] = "collected"]
    /\ mt_started' = [mt_started EXCEPT ![i] = @ + 1]
    /\ mt_all_rows' = extend(mt_all_rows, process_ticker(mt_args.tickers[i], mt_args.market[i]))
    /\ UNCHANGED <<mt_args, mt_pc, mt_written, pricing_vars, scoring_vars, fusion_vars,
                   store_vars, headline_vars, retry_vars, cache_vars, web_vars>>

\* A free worker of the pool takes the oldest submitted task.
WorkerStart(i) ==
    /\ mt_pc = "run"
    /\ mt_args.parallel > 0
    /\ mt_task[i] = "pending"
    /\ \A j \in 1..(i - 1) : mt_task[j] # "pending"
    /\ Cardinality(Running) < mt_args.parallel
    /\ mt_task' = [mt_task EXCEPT ![i] = "running"]
    /\ mt_started' = [mt_started EXCEPT ![i] = @ + 1]
    /\ UNCHANGED <<mt_args, mt_pc, mt_all_rows, mt_written, pricing_vars, scoring_vars,
                   fusion_vars, store_vars, headline_vars, retry_vars, cache_vars, web_vars>>

\* _process_ticker returns on its worker: the future is done.
WorkerFinish(i) ==
    /\ mt_pc = "run"
    /\ mt_task[i] = "running"
    /\ mt_task' = [mt_task EXCEPT ![i] = "done"]
    /\ UNCHANGED <<mt_args, mt_pc, mt_started, mt_all_rows, mt_written, pricing_vars,
                   scoring_vars, fusion_vars, store_vars, headline_vars, retry_vars,
                   cache_vars, web_vars>>

\* Lines 293-294: as_completed hands a done future to the main thread.
Collect(i) ==
    /\ mt_pc = "run"
    /\ mt_task[i] = "done"
    /\ mt_task' = [mt_task EXCEPT ![i] = "collected"]
    /\ mt_all_rows' = extend(mt_all_rows, process_ticker(mt_args.tickers[i], mt_args.market[i]))
    /\ UNCHANGED <<mt_args, mt_pc, mt_started, mt_written, pricing_vars, scoring_vars,
                   fusion_vars, store_vars, headline_vars, retry_vars, cache_vars, web_vars>>

\* Lines 300-304: the output file is written from all_rows.
WriteOutput ==
    /\ mt_pc = "run"
    /\ \A i \in DOMAIN mt_task : mt_task[i] = "collected"
    /\ mt_pc' = "written"
    /\ mt_written' = mt_all_rows
    /\ UNCHANGED <<mt_args, mt_task, mt_started, mt_all_rows, pricing_vars, scoring_vars,
                   fusion_vars, store_vars, headline_vars, retry_vars, cache_vars, web_vars>>

PoolNext ==
    \/ \E i \in DOMAIN mt_task : ProcessNext(i)
    \/ \E i \in DOMAIN mt_task : WorkerStart(i)
    \/ \E i \in DOMAIN mt_task : WorkerFinish(i)
    \/ \E i \in DOMAIN mt_task : Collect(i)
    \/ WriteOutput

SpecPool == PoolInit /\ [][PoolNext]_vars

\* The rows sequential mode writes for the tickers from position i on.
RECURSIVE SequentialRows(_, _, _)
SequentialRows(tickers, market, i) ==
    IF i > Len(tickers) THEN <<>>
    ELSE (IF market[i] = "chain"
          THEN <<[ticker |-> tickers[i], contractSymbol |-> "C100"],
                 [ticker |-> tickers[i], contractSymbol |-> "P100"]>>
          ELSE <<>>)
         \o SequentialRows(tickers, market, i + 1)

CountIn(rows, r) == Cardinality({k \in DOMAIN rows : rows[k] = r})

SameMultiset(a, b) ==
    /\ Len(a) = Len(b)
    /\ \A k \in DOMAIN a : CountIn(a, a[k]) = CountIn(b, a[k])

\* C27: when the output is written, with any number of workers and any
\* order of completion, every ticker has been processed exactly once and
\* the rows written are, as a multiset, the rows sequential mode writes; a
\* ticker that failed has no row among them and every ticker that did not
\* fail has its rows.
C27_ParallelSameRows ==
    mt_pc = "written" =>
        /\ \A i \in DOMAIN mt_started : mt_started[i] = 1
        /\ SameMultiset(mt_written,
                        SequentialRows(mt_args.tickers, mt_args.market, 1))
        /\ \A i \in DOMAIN mt_args.tickers :
              /\ mt_args.market[i] = "raises" =>
                    ~\E k \in DOMAIN mt_written : mt_written[k].ticker = mt_args.tickers[i]
              /\ mt_args.market[i] = "chain" =>
                    Cardinality({k \in DOMAIN mt_written :
                                    mt_written[k].ticker = mt_args.tickers[i]}) = 2

\* Two workers, three tickers, the second failed; the rows of the third
\* were collected before those of the first.
C27_Witness ==
    /\ mt_pc = "written"
    /\ mt_args.parallel = 2
    /\ mt_args.market = <<"chain", "raises", "chain">>
    /\ Len(mt_written) = 4
    /\ mt_written[1].ticker = "NVDA"
    /\ mt_written[3].ticker = "AAPL"

\* ---------------------------------------------------------------------
\* api_server.py: the index of the CSV rows by ticker and the requests
\* that load and read it, on the threads of the server.
\* ---------------------------------------------------------------------

MaxCsvRows == 2

MaxRequests == 3

Threads == {1, 2}

APLE == <<"A", "P", "L", "E">>

\* str.strip() on the strings of the model.
RECURSIVE lstrip(_)
lstrip(str) == IF str # <<>> /\ Head(str) = " " THEN lstrip(Tail(str)) ELSE str

RECURSIVE rstrip(_)
rstrip(str) ==
    IF str # <<>> /\ str[Len(str)] = " " THEN rstrip(SubSeq(str, 1, Len(str) - 1)) ELSE str

strip(str) == rstrip(lstrip(str))

\* The rows of the CSV: a call and a put of AAPL, the put with the ticker
\* in lower case after a blank, a call of APLE, and a row with no ticker.
\* score is the number the column holds.
ApiCsvRows ==
    {[ticker |-> AAPL, contractSymbol |-> "AAPL260116C00100000", score |-> 41],
     [ticker |-> <<" ", "a", "a", "p", "l">>, contractSymbol |-> "AAPL260116P00100000",
      score |-> -300],
     [ticker |-> APLE, contractSymbol |-> "APLE260116C00015000", score |-> 0],
     [ticker |-> <<" ">>, contractSymbol |-> "", score |-> 0]}

\* A file holds a contract once.
ApiFiles ==
    {rows \in SeqsUpTo(ApiCsvRows, MaxCsvRows) :
        \A i, j \in DOMAIN rows : i # j => rows[i] # rows[j]}

\* _option_type_from_contract on the symbols of the model: "C0" in s.
option_type_from_contract(symbol) ==
    IF symbol \in {"AAPL260116C00100000", "APLE260116C00015000"} THEN "call"
    ELSE IF symbol = "" THEN "call"
    ELSE "put"

\* _score_to_confidence: 50 + v / 2 rounded half to even, between 0 and 100.
score_to_confidence(score) ==
    LET c == RoundDiv(100 + score, 2)
    IN  IF c < 0 THEN 0 ELSE IF c > 100 THEN 100 ELSE c

\* dict.get(key, []).
dict_get(dict, key) == IF key \in DOMAIN dict THEN dict[key] ELSE <<>>

\* An index in which a row is added to its ticker unless the ticker holds it.
index_row_once(index, row) ==
    LET ticker == upper(strip(row.ticker))
    IN  IF ticker = <<>> THEN index
        ELSE IF \E k \in DOMAIN dict_get(index, ticker) : dict_get(index, ticker)[k] = row
        THEN index
        ELSE [k \in DOMAIN index \cup {ticker} |->
                 IF k = ticker THEN Append(dict_get(index, ticker), row) ELSE index[k]]

\* Lines 54-57: a row with a ticker is appended to the list of its ticker
\* in the dict the global names at this moment.
index_row(index, row) ==
    LET ticker == upper(strip(row.ticker))
    IN  IF ticker = <<>> THEN index
        ELSE [k \in DOMAIN index \cup {ticker} |->
                 IF k = ticker THEN Append(dict_get(index, ticker), row) ELSE index[k]]

\* Lines 79-109: the options of the response, one per indexed row.
get_stock_options(index, ticker) ==
    LET rows == dict_get(index, upper(strip(ticker)))
    IN  [i \in DOMAIN rows |->
            [ticker |-> upper(strip(rows[i].ticker)),
             type |-> option_type_from_contract(rows[i].contractSymbol),
             contractSymbol |-> rows[i].contractSymbol,
             score |-> rows[i].score,
             confidence |-> score_to_confidence(rows[i].score)]]

\* The server process has imported the module: the index is empty and the
\* CSV is there or is still to be written.
ApiInit ==
    /\ PricingIdle
    /\ ScoringIdle
    /\ FusionIdle
    /\ StoreIdle
    /\ HeadlineIdle
    /\ RetryIdle
    /\ CacheIdle
    /\ PoolIdle
    /\ UpdateIdle
    /\ api_file \in [exists : BOOLEAN, rows : ApiFiles]
    /\ api_index = EmptyDict
    /\ api_req = [t \in Threads |-> IdleRequest]
    /\ api_count = 0
    /\ api_loaded = FALSE

\* The pipeline writes the CSV while the server runs.
CsvWritten ==
    /\ ~api_file.exists
    /\ api_file' = [api_file EXCEPT !.exists = TRUE]
    /\ UNCHANGED <<api_index, api_req, api_count, api_loaded, pricing_vars, scoring_vars,
                   fusion_vars, store_vars, headline_vars, retry_vars, cache_vars, pool_vars,
                   upd_vars>>

\* A request for the options of a ticker reaches a thread of the server.
Request(t, ticker) ==
    /\ api_req[t].pc = "idle"
    /\ api_count < MaxRequests
    /\ api_count' = api_count + 1
    /\ api_req' = [api_req EXCEPT ![t] = [pc |-> "before_request", ticker |-> ticker,
                                          pos |-> 0, options |-> <<>>]]
    /\ UNCHANGED <<api_file, api_index, api_loaded, pricing_vars, scoring_vars, fusion_vars,
                   store_vars, headline_vars, retry_vars, cache_vars, pool_vars, upd_vars>>

\* ensure_loaded, line 126: load_csv is called when the index is empty and
\* the file is there.
EnsureLoaded(t) ==
    /\ api_req[t].pc = "before_request"
    /\ api_req' = [api_req EXCEPT ![t].pc =
                      IF DOMAIN api_index = {} /\ api_file.exists THEN "load_csv" ELSE "view"]
    /\ UNCHANGED <<api_file, api_index, api_count, api_loaded, pricing_vars, scoring_vars,
                   fusion_vars, store_vars, headline_vars, retry_vars, cache_vars, pool_vars,
                   upd_vars>>

\* load_csv, lines 46-52: the global is bound to a new empty dict and the
\* file is opened.
LoadCsvBegin(t) ==
    /\ api_req[t].pc = "load_csv"
    /\ api_index' = EmptyDict
    /\ api_req' = [api_req EXCEPT ![t].pc = IF api_file.exists THEN "rows" ELSE "view",
                                  ![t].pos = 1]
    /\ UNCHANGED <<api_file, api_count, api_loaded, pricing_vars, scoring_vars, fusion_vars,
                   store_vars, headline_vars, retry_vars, cache_vars, pool_vars, upd_vars>>

\* load_csv, lines 53-57: the next row of the reader.
LoadCsvRow(t) ==
    /\ api_req[t].pc = "rows"
    /\ api_req[t].pos <= Len(api_file.rows)
    /\ api_index' = index_row(api_index, api_file.rows[api_req[t].pos])
    /\ api_req' = [api_req EXCEPT ![t].pos = @ + 1]
    /\ UNCHANGED <<api_file, api_count, api_loaded, pricing_vars, scoring_vars, fusion_vars,
                   store_vars, headline_vars, retry_vars, cache_vars, pool_vars, upd_vars>>

\* load_csv, lines 58-59: the reader is at the end of the file.
LoadCsvEnd(t) ==
    /\ api_req[t].pc = "rows"
    /\ api_req[t].pos > Len(api_file.rows)
    /\ api_loaded' = TRUE
    /\ api_req' = [api_req EXCEPT ![t].pc = "view"]
    /\ UNCHANGED <<api_file, api_index, api_count, pricing_vars, scoring_vars, fusion_vars,
                   store_vars, headline_vars, retry_vars, cache_vars, pool_vars, upd_vars>>

\* get_stock_options: the response is built from the index.
GetStockOptions(t) ==
    /\ api_req[t].pc = "view"
    /\ api_req' = [api_req EXCEPT ![t].pc = "idle",
                                  ![t].options = get_stock_options(api_index, api_req[t].ticker)]
    /\ UNCHANGED <<api_file, api_index, api_count, api_loaded, pricing_vars, scoring_vars,
                   fusion_vars, store_vars, headline_vars, retry_vars, cache_vars, pool_vars,
                   upd_vars>>

ApiNext ==
    \/ CsvWritten
    \/ \E t \in Threads, ticker \in {AAPL, <<"a", "p", "l", "e">>} : Request(t, ticker)
    \/ \E t \in Threads : EnsureLoaded(t)
    \/ \E t \in Threads : LoadCsvBegin(t)
    \/ \E t \in Threads : LoadCsvRow(t)
    \/ \E t \in Threads : LoadCsvEnd(t)
    \/ \E t \in Threads : GetStockOptions(t)

SpecApi == ApiInit /\ [][ApiNext]_vars

\* The rows of the file whose ticker, stripped and in upper case, is key.
RECURSIVE RowsOfTicker(_, _)
RowsOfTicker(rows, key) ==
    IF rows = <<>> THEN <<>>
    ELSE (IF upper(strip(Head(rows).ticker)) = key THEN <<Head(rows)>> ELSE <<>>)
         \o RowsOfTicker(Tail(rows), key)

NoneLoading == \A t \in Threads : api_req[t].pc \notin {"load_csv", "rows"}

\* C29 (as claimed): once loading has finished the index holds, for each
\* ticker, each row of the file with that ticker exactly once, and no
\* response lists a row of the file twice.
C29_RowsIndexedOnce ==
    /\ (api_loaded /\ NoneLoading) =>
          \A key \in {AAPL, APLE} :
             SameMultiset(dict_get(api_index, key), RowsOfTicker(api_file.rows, key))
    /\ \A t \in Threads : \A i, j \in DOMAIN api_req[t].options :
          i # j => api_req[t].options[i] # api_req[t].options[j]

\* What holds for every interleaving: each indexed row is a row of the file
\* under its own ticker, each row of the file is indexed at most once per
\* request served, and a load that no other load overlaps indexes the
\* file exactly.
IndexedRowsFromFile ==
    \A key \in DOMAIN api_index :
        /\ \A k \in DOMAIN api_index[key] :
              \E i \in DOMAIN api_file.rows :
                 /\ api_file.rows[i] = api_index[key][k]
                 /\ upper(strip(api_file.rows[i].ticker)) = key
        /\ Len(api_index[key]) <= api_count * Len(RowsOfTicker(api_file.rows, key))

\* ---------------------------------------------------------------------
\* update_scores.py: the scores of the output CSV computed anew.
\* ---------------------------------------------------------------------

MaxUpdRows == 2

\* The contracts of the input CSV (strike, price, bid, midPrice, score,
\* impliedVolatility, in dollars at SCALE; the expiration is one year from
\* now, or a text that is no date): an AAPL call quoted under its value, an
\* AAPL put with no volatility, bid or date, an MSFT call quoted far over
\* its value, an MSFT put with volatility 0.
UpdRows ==
    {[ticker |-> "AAPL", contractSymbol |-> "AAPL271106C00100000", expiration |-> "2027-11-06",
      strike |-> Fl(100 * SCALE), price |-> Fl(6 * SCALE), bid |-> Fl(55000),
      midPrice |-> Fl(6 * SCALE), score |-> Fl(425000), impliedVolatility |-> Fl(2000)],
     [ticker |-> "AAPL", contractSymbol |-> "AAPL271106P00100000", expiration |-> "n/a",
      strike |-> Fl(100 * SCALE), price |-> Fl(5 * SCALE), bid |-> NaN,
      midPrice |-> Fl(5 * SCALE), score |-> Fl(-100000), impliedVolatility |-> NaN],
     [ticker |-> "MSFT", contractSymbol |-> "MSFT271106C00100000", expiration |-> "2027-11-06",
      strike |-> Fl(100 * SCALE), price |-> Fl(20 * SCALE), bid |-> Fl(19 * SCALE),
      midPrice |-> Fl(20 * SCALE), score |-> Fl(770000), impliedVolatility |-> Fl(2000)],
     [ticker |-> "MSFT", contractSymbol |-> "MSFT271106P00100000", expiration |-> "2027-11-06",
      strike |-> Fl(100 * SCALE), price |-> Fl(3 * SCALE), bid |-> Fl(3 * SCALE),
      midPrice |-> Fl(3 * SCALE), score |-> Fl(30000), impliedVolatility |-> Zero]}

\* What get_spot returns for a ticker: a price, NaN, or 0.
UpdSpots == {Fl(100 * SCALE), NaN, Zero}

\* opt_type: "put" when the symbol has six digits, P and a digit.
opt_type(sym) ==
    IF sym \in {"AAPL271106P00100000", "MSFT271106P00100000"} THEN "put" ELSE "call"

\* parse_exp: the years to the expiration, 0.01 for a text that does not parse.
parse_exp(exp_str) == IF exp_str = "2027-11-06" THEN Fl(SCALE) ELSE Fl(SCALE \div 100)

\* Lines 67-74 and 93-98: the row handed to compute_scores.
scoring_row(row) ==
    LET mid == FillNa(row.midPrice, 0)
        bid == FillNa(row.bid, 0)
    IN  [ticker |-> row.ticker, contractSymbol |-> row.contractSymbol,
         expiration |-> row.expiration,
         option_type |-> opt_type(row.contractSymbol),
         strike |-> row.strike,
         time_to_expiry_years |-> parse_exp(row.expiration),
         impliedVolatility |-> FillNa(row.impliedVolatility, 2000),
         bid |-> row.bid,
         ask |-> FAdd(mid, FMaximum(FSub(mid, bid), Fl(PriceFloor))),
         lastPrice |-> row.price,
         volume |-> Fl(SCALE), openInterest |-> Fl(SCALE),
         mid_price |-> mid]

\* df["ticker"].unique(): the tickers in the order of their first row.
RECURSIVE unique(_, _)
unique(rows, seen) ==
    IF rows = <<>> THEN <<>>
    ELSE IF Head(rows).ticker \in seen THEN unique(Tail(rows), seen)
    ELSE <<Head(rows).ticker>> \o unique(Tail(rows), seen \cup {Head(rows).ticker})

\* df[df["ticker"] == ticker]
RECURSIVE rows_of(_, _)
rows_of(rows, ticker) ==
    IF rows = <<>> THEN <<>>
    ELSE (IF Head(rows).ticker = ticker THEN <<Head(rows)>> ELSE <<>>)
         \o rows_of(Tail(rows), ticker)

\* A sentiment of one half handed to compute_scores.
update_sentiment_bullish == Fl(SCALE \div 2)

\* Line 101: sentiment_mean=0.0.
update_sentiment == Zero

\* Line 101: compute_scores on the rows of a ticker.
scored_rows_of(sub, spot) ==
    compute_scores([i \in DOMAIN sub |-> scoring_row(sub[i])], spot, ScRate,
                   update_sentiment, Fl(SCALE))

\* Lines 106-107: the scores, which the model holds to four decimals, put
\* in the rows of the ticker.
with_scores(sub, scored) ==
    [i \in DOMAIN sub |-> [sub[i] EXCEPT !.score = scored.rows[i].opportunity_score]]

UpdateInit ==
    /\ PricingIdle
    /\ ScoringIdle
    /\ FusionIdle
    /\ StoreIdle
    /\ HeadlineIdle
    /\ RetryIdle
    /\ CacheIdle
    /\ PoolIdle
    /\ ApiIdle
    /\ us_pc = "start"
    /\ us_input \in [rows : SeqsUpTo(UpdRows, MaxUpdRows), spots : [{"AAPL", "MSFT"} -> UpdSpots]]
    /\ us_todo = <<>>
    /\ us_scored = <<>>
    /\ us_output = <<>>

\* Lines 36-39 and 77: the CSV is read; an empty one ends the run.
ReadCsv ==
    /\ us_pc = "start"
    /\ us_pc' = IF us_input.rows = <<>> THEN "error" ELSE "run"
    /\ us_todo' = unique(us_input.rows, {})
    /\ UNCHANGED <<us_input, us_scored, us_output, pricing_vars, scoring_vars, fusion_vars,
                   store_vars, headline_vars, retry_vars, cache_vars, pool_vars, api_vars>>

\* Lines 81-108, one turn of the loop: the rows of the ticker are kept when
\* there is no spot, else scored; an exception out of compute_scores ends
\* the run with nothing written.
ScoreTicker ==
    /\ us_pc = "run"
    /\ us_todo # <<>>
    /\ LET ticker == Head(us_todo)
           sub == rows_of(us_input.rows, ticker)
           spot == us_input.spots[ticker]
       IN  IF IsNaN(spot) \/ FLe(spot, Zero)
           THEN /\ us_scored' = us_scored \o sub
                /\ us_pc' = "run"
           ELSE LET scored == scored_rows_of(sub, spot)
                IN  IF scored.raised
                    THEN /\ us_scored' = us_scored
                         /\ us_pc' = "raised"
                    ELSE /\ us_scored' = us_scored \o with_scores(sub, scored)
                         /\ us_pc' = "run"
    /\ us_todo' = Tail(us_todo)
    /\ UNCHANGED <<us_input, us_output, pricing_vars, scoring_vars, fusion_vars, store_vars,
                   headline_vars, retry_vars, cache_vars, pool_vars, api_vars>>

\* Lines 110-113: the rows are written.
WriteScores ==
    /\ us_pc = "run"
    /\ us_todo = <<>>
    /\ us_pc' = "written"
    /\ us_output' = us_scored
    /\ UNCHANGED <<us_input, us_todo, us_scored, pricing_vars, scoring_vars, fusion_vars,
                   store_vars, headline_vars, retry_vars, cache_vars, pool_vars, api_vars>>

UpdateNext ==
    \/ ReadCsv
    \/ ScoreTicker
    \/ WriteScores

SpecUpdate == UpdateInit /\ [][UpdateNext]_vars

SpotAvailable(ticker) ==
    /\ ~us_input.spots[ticker].nan
    /\ us_input.spots[ticker].v > 0

\* The score the input holds for a contract.
OldScore(sym) == (CHOOSE row \in UpdRows : row.contractSymbol = sym).score

====
